---------------------------- MODULE Spec2Model ----------------------------
(***************************************************************************)
(* RobustApiClient (retry / fallback executor over two ContentGenerators)  *)
(* and DailicodeOAuth2Client (credential lifecycle) of DailiCode.          *)
(*                                                                         *)
(* The specifications of the module:                                       *)
(*   Spec       the RobustApiClient: constructor, initialize() and one     *)
(*              operation call at a time (executeWithFallback /            *)
(*              executeWithRetry), the backends' answers being inputs;     *)
(*   SpecOAuth  one DailicodeOAuth2Client: the constructor's background    *)
(*              cache load, setCredentials, getAccessToken (with refresh), *)
(*              clearCachedCredentials, the token endpoint and the file    *)
(*              system being inputs;                                       *)
(*   SpecAuth   one session of authWithDailicodeWeb, the requests to the   *)
(*              listener and the token endpoint being inputs;              *)
(*   SpecGen    the DailicodeContentGenerator, one operation at a time;    *)
(*   SpecStream the fragment sequence of generateContentStream over the    *)
(*              chunks of one response body;                               *)
(*   SpecLogin  getDailicodeOauthClient: cache, check, clear, web flow;    *)
(*   SpecTimers Spec with the setTimeout timers firing (weak fairness);    *)
(*   SpecYield  Spec with the yield* of RobustApiClient's stream;          *)
(*   SpecOverlap two overlapping getAccessToken() calls on one client;     *)
(*   SpecGoogle the callback handler of the Google authWithWeb.            *)
(* A specification leaves the other components' variables untouched.       *)
(***************************************************************************)
EXTENDS Integers, Sequences, FiniteSets, TLC

(***************************************************************************)
(* Bounds of the model                                                     *)
(***************************************************************************)
\* largest options.maxRetries an executor is constructed with
MaxRetriesBound == 3
\* the clock (Date.now(), in seconds) runs from 1 to MaxClock
MaxClock == 2

(***************************************************************************)
(* RobustApiClient: values                                                 *)
(***************************************************************************)
\* the backend identities an executor is constructed over
AuthType == {"USE_GEMINI", "DAILICODE_OAUTH"}

\* primaryGenerator / fallbackGenerator before construction
NullGenerator == "null"

\* options.retryDelay ?? 1000
DefaultRetryDelay == 1000

OperationNames == {"generateContent", "generateContentStream", "countTokens", "embedContent"}

\* messages are sequences of parts, so that string concatenation is \o
BackendErrors == {<<"e1">>, <<"e2">>}
ErrTimeout == <<"Timeout">>
ErrNoGenerator == <<"NoGeneratorAvailable">>
ErrInvalidPrimary == <<"PrimaryInvalidResponse">>
ErrInvalidFallback == <<"FallbackInvalidResponse">>
ConstructionErrors == {<<"configError">>}
NoError == <<>>

\* JavaScript values a backend operation can resolve with.  An object says
\* whether it has a candidates property ("absent"), and what it holds
\* ("null" or an "array" whose elements are in candidates).
NullValue == [type |-> "null", truthy |-> FALSE, candField |-> "absent", candidates |-> <<>>, from |-> "none"]

ObjectValue(field, cands, b) ==
    [type |-> "object", truthy |-> TRUE, candField |-> field, candidates |-> cands, from |-> b]

PrimitiveValue(t, b) ==
    [type |-> "primitive", truthy |-> t, candField |-> "absent", candidates |-> <<>>, from |-> b]

\* what a call of operation(generator) on backend b can resolve with
ReturnValues(b) ==
    { NullValue,
      PrimitiveValue(TRUE, b),
      PrimitiveValue(FALSE, b),
      ObjectValue("absent", <<>>, b),
      ObjectValue("null", <<>>, b),
      ObjectValue("array", <<>>, b),
      ObjectValue("array", <<"candidate">>, b) }

\* mutant of NonEmptyCandidates: the length of candidates is not looked at
CandidatesPresent(response) ==
    response.candField = "array"

\* !!(genResponse.candidates && genResponse.candidates.length > 0)
NonEmptyCandidates(response) ==
    /\ response.candField = "array"
    /\ Len(response.candidates) > 0

isValidResponse(response) ==
    IF ~response.truthy THEN FALSE
    ELSE IF response.type = "object" /\ response.candField # "absent"
         THEN NonEmptyCandidates(response)
    ELSE IF response.type = "object" THEN TRUE
    ELSE FALSE

RECURSIVE Pow2(_)
Pow2(n) == IF n <= 0 THEN 1 ELSE 2 * Pow2(n - 1)

\* mutant of BackoffDelay: the delay does not grow
BackoffDelayConstant(opts, att) == opts.retryDelay

\* this.options.retryDelay * Math.pow(2, attempt - 1)
BackoffDelay(opts, att) == opts.retryDelay * Pow2(att - 1)

\* mutant of CombinedError: only the fallback's message is kept
CombinedErrorFallbackOnly(primaryMsg, fallbackMsg) ==
    <<"AllBackendsFailed">> \o fallbackMsg

\* new Error(`...: ${error.message} | ${fallbackError.message}`)
CombinedError(primaryMsg, fallbackMsg) ==
    <<"AllBackendsFailed">> \o primaryMsg \o <<"|">> \o fallbackMsg

NoResult == [status |-> "none", value |-> NullValue, error |-> NoError]
Resolved(v) == [status |-> "resolved", value |-> v, error |-> NoError]
Rejected(e) == [status |-> "rejected", value |-> NullValue, error |-> e]

(***************************************************************************)
(* State                                                                   *)
(***************************************************************************)
VARIABLES
    \* RobustApiClient fields
    primaryAuthType, options, primaryGenerator, fallbackGenerator,
    \* initialize(): position, outcome, constructions attempted so far
    initPc, initResult, constructions,
    \* the operation call in progress
    pc, op, backend, attempt, lastError, primaryError, result,
    \* what the call has done: attempts in order, timers set, backoff waits
    log, timers, waited,
    \* backend invocations the call has started; those that have settled
    invoked, completed,
    \* DailicodeOAuth2Client: this.credentials, the two cache files, Date.now()
    credentials, credFile, userIdFile, now,
    \* the constructor's loadCachedCredentials(): position, text read
    loadPc, loadBuf,
    \* clearCachedCredentials(): position; whether it has returned since the
    \* credentials were last set
    clearPc, clearedSince,
    \* the getAccessToken() calls
    ga,
    \* authWithDailicodeWeb: the local callback listener, loginCompletePromise,
    \* the handler invocations in order of arrival, the codes posted to the
    \* token endpoint
    server, login, handlers, exchanges,
    \* a DailicodeContentGenerator operation call: position, operation, the
    \* outcome of client.getAccessToken(), the requests sent to the content
    \* endpoint, the endpoint's answer, the outcome
    genPc, genOp, accessToken, fetched, response, genResult,
    \* the fragment sequence of generateContentStream: the generator's
    \* position, the text the body has yet to deliver and how it ends, the
    \* text read so far, buffer, the lines of the chunk still to look at,
    \* the fragments yielded, the reader, a return() waiting for the read
    streamPc, body, received, buffer, lines, yielded, reader, returnQueued,
    \* getDailicodeOauthClient: position and what it has done so far
    flowPc, flowTrace

execVars == <<primaryAuthType, options, primaryGenerator, fallbackGenerator,
              initPc, initResult, constructions>>
callVars == <<pc, op, backend, attempt, lastError, primaryError, result,
              log, timers, waited, invoked, completed>>
oauthVars == <<credentials, credFile, userIdFile, now, loadPc, loadBuf,
               clearPc, clearedSince, ga>>
authVars == <<server, login, handlers, exchanges>>
genVars == <<genPc, genOp, accessToken, fetched, response, genResult>>
streamVars == <<streamPc, body, received, buffer, lines, yielded, reader, returnQueued>>
flowVars == <<flowPc, flowTrace>>
vars == <<execVars, callVars, oauthVars, authVars, genVars, streamVars, flowVars>>

(***************************************************************************)
(* DailicodeOAuth2Client: values                                           *)
(***************************************************************************)
\* An optional JavaScript value is a sequence: <<>> is null / undefined /
\* an absent property, <<v>> is the value v.
Null == <<>>
Some(v) == <<v>>

\* JavaScript truthiness of an optional number: undefined and 0 are falsy
TruthyNumber(x) == x # Null /\ x[1] # 0

\* JavaScript truthiness of an optional string: undefined and "" are falsy
TruthyString(x) == x # Null /\ x[1] # ""

\* Date.now() + (tokenData.expires_in * 1000)
MsPerSecond == 1000

\* DailicodeCredentials (token_type and expires_in play no part in any decision)
Credentials(at, rt, exp) ==
    [access_token |-> at, refresh_token |-> rt, expires_at |-> exp]

\* the instants of the clock, in epoch milliseconds
Instants == { k * MsPerSecond : k \in 1..MaxClock }

\* credentials a caller hands to setCredentials()
CallerCredentials ==
    { Credentials("old-token", rt, exp) :
        rt \in {Null, Some("refresh-token")},
        exp \in {Null, Some(0)} \cup { Some(t) : t \in Instants } }

\* the JSON body of an ok answer of the token endpoint to a refresh request
TokenData ==
    [access_token : {"new-token"},
     refresh_token : {Null, Some("refresh-token")},
     expires_in : {Null, Some(1), Some(0 - 1)}]

ErrUnauthenticated == <<"No credentials available. Please authenticate first.">>
ErrExpiredNoRefresh == <<"Access token expired and no refresh token available. Please re-authenticate.">>
ErrRefreshFailed == <<"Failed to refresh token">>
ErrTypeError == <<"TypeError">>
ErrFileSystem == <<"file system error">>

\* a file: whether it exists, and the credentials its JSON text parses to
NoFile == [exists |-> FALSE, content |-> Null]
FileOf(c) == [exists |-> TRUE, content |-> c]

\* where the expiry of the credentials lies when getAccessToken() is called
ExpiryCase(creds, clock) ==
    IF creds = Null THEN "null"
    ELSE IF creds[1].expires_at = Null THEN "absent"
    ELSE IF creds[1].expires_at[1] < clock THEN "past"
    ELSE IF creds[1].expires_at[1] > clock THEN "future"
    ELSE "now"

\* a getAccessToken() call: position; what the client held when it was
\* called; the I/O it has started; the token the endpoint granted it; the
\* outcome
NotStarted == [expiry |-> "none", refresh |-> FALSE, token |-> "", cleared |-> FALSE]
Started(creds, clock, cleared) ==
    [expiry |-> ExpiryCase(creds, clock),
     refresh |-> (creds # Null /\ creds[1].refresh_token # Null),
     token |-> IF creds = Null THEN "" ELSE creds[1].access_token,
     cleared |-> cleared]
IdleGet ==
    [pc |-> "idle", start |-> NotStarted, io |-> <<>>, granted |-> Null,
     result |-> [status |-> "none", token |-> "", error |-> NoError]]

\* SpecOAuth runs one getAccessToken() call at a time
CallIds == {"call"}

\* the state of the component a specification does not run
NoOAuthClient ==
    /\ credentials = Null
    /\ credFile = NoFile
    /\ userIdFile = FALSE
    /\ now = MsPerSecond
    /\ loadPc = "done"
    /\ loadBuf = Null
    /\ clearPc = "idle"
    /\ clearedSince = FALSE
    /\ ga = [c \in CallIds |-> IdleGet]

(***************************************************************************)
(* authWithDailicodeWeb and DailicodeContentGenerator: idle values         *)
(***************************************************************************)
\* loginCompletePromise: a promise settles once, later settlements are ignored
PendingLogin == [status |-> "pending", error |-> NoError]

NoAuthSession ==
    /\ server = "none"
    /\ login = PendingLogin
    /\ handlers = <<>>
    /\ exchanges = <<>>

NoValue == [kind |-> "none"]
NoOutcome == [status |-> "none", value |-> NoValue, error |-> NoError]
NoResponse == [ok |-> FALSE, statusText |-> "", hasBody |-> FALSE, data |-> Null]
NoToken == [status |-> "none", token |-> "", error |-> NoError]

\* response.body.getReader(): the lock is held, no read is pending
LockedReader == [released |-> 0, pending |-> FALSE, misused |-> FALSE]

IdleGenerator ==
    /\ genPc = "idle"
    /\ genOp = "none"
    /\ accessToken = NoToken
    /\ fetched = <<>>
    /\ response = NoResponse
    /\ genResult = NoOutcome

IdleStream ==
    /\ streamPc = "none"
    /\ body = [text |-> <<>>, end |-> "done"]
    /\ received = <<>>
    /\ buffer = <<>>
    /\ lines = <<>>
    /\ yielded = <<>>
    /\ reader = LockedReader
    /\ returnQueued = FALSE

IdleFlow ==
    /\ flowPc = "none"
    /\ flowTrace = <<>>

(***************************************************************************)
(* RobustApiClient: constructor                                            *)
(***************************************************************************)
RobustApiOptions ==
    [maxRetries : 1..MaxRetriesBound,
     retryDelay : {DefaultRetryDelay},
     enableFallback : BOOLEAN,
     fallbackAuthType : AuthType]

IdleCall ==
    /\ pc = "idle"
    /\ op = "none"
    /\ backend = "none"
    /\ attempt = 0
    /\ lastError = NoError
    /\ primaryError = NoError
    /\ result = NoResult
    /\ log = <<>>
    /\ timers = 0
    /\ waited = <<>>
    /\ invoked = 0
    /\ completed = 0

constructor ==
    /\ primaryAuthType \in AuthType
    /\ options \in RobustApiOptions
    /\ primaryGenerator = NullGenerator
    /\ fallbackGenerator = NullGenerator
    /\ initPc = "constructed"
    /\ initResult = NoError
    /\ constructions = <<>>

Init ==
    /\ constructor
    /\ IdleCall
    /\ NoOAuthClient
    /\ NoAuthSession
    /\ IdleGenerator
    /\ IdleStream
    /\ IdleFlow

(***************************************************************************)
(* RobustApiClient.initialize / initializeFallback                         *)
(***************************************************************************)
\* mutant of FallbackWanted: the identities are not compared
FallbackWantedAnyIdentity ==
    options.enableFallback

\* this.options.enableFallback && this.options.fallbackAuthType !== this.primaryAuthType
FallbackWanted ==
    options.enableFallback /\ options.fallbackAuthType # primaryAuthType

InitRunning == initPc \in {"primary", "fallbackInCatch", "fallbackAfter"}

\* initialize() is called: the construction of the primary is awaited
initialize ==
    /\ initPc = "constructed"
    /\ pc = "idle"
    /\ initPc' = "primary"
    /\ constructions' = Append(constructions, "primary")
    /\ UNCHANGED <<primaryAuthType, options, primaryGenerator, fallbackGenerator, initResult>>
    /\ UNCHANGED <<callVars, oauthVars, authVars, genVars, streamVars, flowVars>>

\* the statement after the try/catch: the fallback is constructed when wanted
AfterTryCatch ==
    IF FallbackWanted
    THEN /\ initPc' = "fallbackAfter"
         /\ constructions' = Append(constructions, "fallback")
    ELSE /\ initPc' = "resolved"
         /\ UNCHANGED constructions

PrimaryConstructed ==
    /\ initPc = "primary"
    /\ primaryGenerator' = primaryAuthType
    /\ AfterTryCatch
    /\ UNCHANGED <<primaryAuthType, options, fallbackGenerator, initResult>>
    /\ UNCHANGED <<callVars, oauthVars, authVars, genVars, streamVars, flowVars>>

PrimaryConstructionFails(e) ==
    /\ initPc = "primary"
    /\ IF FallbackWanted
       THEN /\ initPc' = "fallbackInCatch"
            /\ constructions' = Append(constructions, "fallback")
            /\ UNCHANGED initResult
       ELSE /\ initPc' = "rejected"
            /\ initResult' = e
            /\ UNCHANGED constructions
    /\ UNCHANGED <<primaryAuthType, options, primaryGenerator, fallbackGenerator>>
    /\ UNCHANGED <<callVars, oauthVars, authVars, genVars, streamVars, flowVars>>

\* initializeFallback() ends, by success or by its swallowed failure
initializeFallback(ok) ==
    /\ initPc \in {"fallbackInCatch", "fallbackAfter"}
    /\ fallbackGenerator' = IF ok THEN options.fallbackAuthType ELSE fallbackGenerator
    /\ IF initPc = "fallbackInCatch"
       THEN AfterTryCatch
       ELSE /\ initPc' = "resolved"
            /\ UNCHANGED constructions
    /\ UNCHANGED <<primaryAuthType, options, primaryGenerator, initResult>>
    /\ UNCHANGED <<callVars, oauthVars, authVars, genVars, streamVars, flowVars>>

(***************************************************************************)
(* RobustApiClient.executeWithFallback / executeWithRetry                  *)
(***************************************************************************)
\* one loop iteration begins: the timeout timer is set, the operation invoked,
\* and the race of the two awaited
StartAttempt(b, n) ==
    /\ pc' = "awaiting"
    /\ backend' = b
    /\ attempt' = n
    /\ timers' = timers + 1
    /\ invoked' = invoked + 1

\* executeWithRetry is entered for backend b: lastError = null, attempt = 1
executeWithRetry(b) ==
    /\ lastError' = NoError
    /\ StartAttempt(b, 1)

\* executeWithRetry is left, by its return or by its throw
LeaveRetry ==
    /\ lastError' = NoError
    /\ UNCHANGED <<backend, attempt, timers, invoked>>

\* mutant of executeWithFallback: without a primary the fallback is used
executeWithFallbackAnyGenerator ==
    IF primaryGenerator = NullGenerator /\ fallbackGenerator = NullGenerator
    THEN /\ pc' = "settled"
         /\ result' = Rejected(ErrNoGenerator)
         /\ UNCHANGED <<backend, attempt, timers, invoked, lastError>>
    ELSE /\ executeWithRetry(IF primaryGenerator # NullGenerator THEN "primary" ELSE "fallback")
         /\ UNCHANGED result

\* executeWithFallback up to its first await
executeWithFallback ==
    IF primaryGenerator = NullGenerator
    THEN /\ pc' = "settled"
         /\ result' = Rejected(ErrNoGenerator)
         /\ UNCHANGED <<backend, attempt, timers, invoked, lastError>>
    ELSE /\ executeWithRetry("primary")
         /\ UNCHANGED result

\* generateContent, countTokens, embedContent: async functions, run at the call
CallOperation(o) ==
    /\ pc = "idle"
    /\ ~InitRunning
    /\ o # "generateContentStream"
    /\ op' = o
    /\ executeWithFallback
    /\ UNCHANGED <<primaryError, log, waited, completed>>
    /\ UNCHANGED <<execVars, oauthVars, authVars, genVars, streamVars, flowVars>>

\* generateContentStream is an async generator function: the call returns the
\* generator object and runs nothing of the body
generateContentStream ==
    /\ pc = "idle"
    /\ ~InitRunning
    /\ op' = "generateContentStream"
    /\ pc' = "suspended"
    /\ UNCHANGED <<backend, attempt, lastError, primaryError, result, log, timers, waited,
                   invoked, completed>>
    /\ UNCHANGED <<execVars, oauthVars, authVars, genVars, streamVars, flowVars>>

\* the first next() on that generator object runs the body
StreamFirstNext ==
    /\ pc = "suspended"
    /\ executeWithFallback
    /\ UNCHANGED <<op, primaryError, log, waited, completed>>
    /\ UNCHANGED <<execVars, oauthVars, authVars, genVars, streamVars, flowVars>>

\* the catch blocks of executeWithFallback, entered with the error e
HandleFailure(e) ==
    IF backend = "primary"
    THEN IF fallbackGenerator # NullGenerator /\ options.enableFallback
         THEN /\ primaryError' = e
              /\ executeWithRetry("fallback")
              /\ UNCHANGED result
         ELSE /\ pc' = "settled"
              /\ result' = Rejected(e)
              /\ LeaveRetry
              /\ UNCHANGED primaryError
    ELSE /\ pc' = "settled"
         /\ result' = Rejected(CombinedError(primaryError, e))
         /\ LeaveRetry
         /\ UNCHANGED primaryError

\* the race is won by the operation, which resolved with v: executeWithRetry
\* returns v and executeWithFallback validates it
AttemptReturns(v) ==
    /\ pc = "awaiting"
    /\ v \in ReturnValues(backend)
    /\ log' = Append(log, [backend |-> backend, attempt |-> attempt, kind |-> "returned",
                           value |-> v, error |-> NoError])
    /\ IF isValidResponse(v)
       THEN /\ pc' = "settled"
            /\ result' = Resolved(v)
            /\ LeaveRetry
            /\ UNCHANGED primaryError
       ELSE HandleFailure(IF backend = "primary" THEN ErrInvalidPrimary ELSE ErrInvalidFallback)
    /\ completed' = completed + 1
    /\ UNCHANGED <<op, waited>>
    /\ UNCHANGED <<execVars, oauthVars, authVars, genVars, streamVars, flowVars>>

\* mutant of RetryCatch: lastError keeps the first error of the loop
RetryCatchKeepsFirstError(e) ==
    LET err == IF lastError = NoError THEN e ELSE lastError
    IN  IF attempt < options.maxRetries
        THEN /\ lastError' = err
             /\ pc' = "backoff"
             /\ timers' = timers + 1
             /\ waited' = Append(waited, BackoffDelay(options, attempt))
             /\ UNCHANGED <<primaryError, backend, attempt, result, invoked>>
        ELSE /\ HandleFailure(err)
             /\ UNCHANGED waited

\* mutant of RetryCatch: one attempt more than maxRetries
RetryCatchOneMore(e) ==
    IF attempt <= options.maxRetries
    THEN /\ lastError' = e
         /\ pc' = "backoff"
         /\ timers' = timers + 1
         /\ waited' = Append(waited, BackoffDelay(options, attempt))
         /\ UNCHANGED <<primaryError, backend, attempt, result, invoked>>
    ELSE /\ HandleFailure(e)
         /\ UNCHANGED waited

\* the catch block of executeWithRetry, entered with the error e
\* (after the last attempt the loop ends and lastError is thrown)
RetryCatch(e) ==
    IF attempt < options.maxRetries
    THEN /\ lastError' = e
         /\ pc' = "backoff"
         /\ timers' = timers + 1
         /\ waited' = Append(waited, BackoffDelay(options, attempt))
         /\ UNCHANGED <<primaryError, backend, attempt, result, invoked>>
    ELSE /\ HandleFailure(e)
         /\ UNCHANGED waited

\* the race is lost to a rejection of the operation
AttemptThrows(e) ==
    /\ pc = "awaiting"
    /\ log' = Append(log, [backend |-> backend, attempt |-> attempt, kind |-> "threw",
                           value |-> NullValue, error |-> e])
    /\ RetryCatch(e)
    /\ completed' = completed + 1
    /\ UNCHANGED op
    /\ UNCHANGED <<execVars, oauthVars, authVars, genVars, streamVars, flowVars>>

\* mutant of AttemptTimesOut: the operation is awaited without a timer
AttemptAwaitedWithoutTimer ==
    /\ pc = "awaiting"
    /\ timers = 0
    /\ UNCHANGED vars

\* the race is lost to the timeout timer: the operation's promise is left
\* pending, nothing cancels the invocation
AttemptTimesOut ==
    /\ pc = "awaiting"
    /\ log' = Append(log, [backend |-> backend, attempt |-> attempt, kind |-> "timedOut",
                           value |-> NullValue, error |-> ErrTimeout])
    /\ RetryCatch(ErrTimeout)
    /\ UNCHANGED <<op, completed>>
    /\ UNCHANGED <<execVars, oauthVars, authVars, genVars, streamVars, flowVars>>

\* the backoff timer fires: the next loop iteration
BackoffElapsed ==
    /\ pc = "backoff"
    /\ StartAttempt(backend, attempt + 1)
    /\ UNCHANGED <<op, lastError, primaryError, result, log, waited, completed>>
    /\ UNCHANGED <<execVars, oauthVars, authVars, genVars, streamVars, flowVars>>

\* the invocations of the call that have not settled
Outstanding == invoked - completed

\* mutant of AbandonedSettles: the late result is handed to the caller
AbandonedSettlesDelivered ==
    /\ pc \in {"awaiting", "backoff", "settled"}
    /\ Outstanding > (IF pc = "awaiting" THEN 1 ELSE 0)
    /\ completed' = completed + 1
    /\ pc' = "settled"
    /\ result' = Resolved(ObjectValue("array", <<"candidate">>, backend))
    /\ UNCHANGED <<op, backend, attempt, lastError, primaryError,
                   log, timers, waited, invoked>>
    /\ UNCHANGED <<execVars, oauthVars, authVars, genVars, streamVars, flowVars>>

\* an invocation abandoned on timeout settles; nobody awaits its promise
AbandonedSettles ==
    /\ pc \in {"awaiting", "backoff", "settled"}
    /\ Outstanding > (IF pc = "awaiting" THEN 1 ELSE 0)
    /\ completed' = completed + 1
    /\ UNCHANGED <<pc, op, backend, attempt, lastError, primaryError, result,
                   log, timers, waited, invoked>>
    /\ UNCHANGED <<execVars, oauthVars, authVars, genVars, streamVars, flowVars>>

\* the caller has the outcome; the executor is ready for another call
CallDone ==
    /\ pc = "settled"
    /\ pc' = "idle"
    /\ op' = "none"
    /\ backend' = "none"
    /\ attempt' = 0
    /\ lastError' = NoError
    /\ primaryError' = NoError
    /\ result' = NoResult
    /\ log' = <<>>
    /\ timers' = 0
    /\ waited' = <<>>
    /\ invoked' = 0
    /\ completed' = 0
    /\ UNCHANGED <<execVars, oauthVars, authVars, genVars, streamVars, flowVars>>

Next ==
    \/ initialize
    \/ PrimaryConstructed
    \/ \E e \in ConstructionErrors : PrimaryConstructionFails(e)
    \/ \E ok \in BOOLEAN : initializeFallback(ok)
    \/ \E o \in OperationNames : CallOperation(o)
    \/ generateContentStream
    \/ StreamFirstNext
    \/ \E v \in ReturnValues("primary") \cup ReturnValues("fallback") : AttemptReturns(v)
    \/ \E e \in BackendErrors : AttemptThrows(e)
    \/ AttemptTimesOut
    \/ BackoffElapsed
    \/ AbandonedSettles
    \/ CallDone

Spec == Init /\ [][Next]_vars

\* The timers of setTimeout fire: the timeout timer of an attempt that is
\* still awaited, and the timer of a backoff wait.
SpecTimers ==
    /\ Init
    /\ [][Next]_vars
    /\ WF_vars(AttemptTimesOut)
    /\ WF_vars(BackoffElapsed)

(***************************************************************************)
(* RobustApiClient.generateContentStream: yield* of the stream obtained    *)
(***************************************************************************)
\* largest number of fragments a stream yields
MaxFragments == 2

\* executeWithFallback has resolved with a stream and yield* iterates it
Delegating ==
    /\ pc = "settled"
    /\ op = "generateContentStream"
    /\ result.status = "resolved"
    /\ streamPc \in {"none", "suspendedYield"}

\* yield* generator: the stream yields a fragment, which is passed on
DelegateYield ==
    /\ Delegating
    /\ Len(yielded) < MaxFragments
    /\ yielded' = Append(yielded, [from |-> result.value.from])
    /\ streamPc' = "suspendedYield"
    /\ UNCHANGED <<body, received, buffer, lines, reader, returnQueued>>
    /\ UNCHANGED <<execVars, callVars, oauthVars, authVars, genVars, flowVars>>

\* yield* generator: the stream is done, and so is the executor's generator
DelegateDone ==
    /\ Delegating
    /\ streamPc' = "completed"
    /\ UNCHANGED <<body, received, buffer, lines, yielded, reader, returnQueued>>
    /\ UNCHANGED <<execVars, callVars, oauthVars, authVars, genVars, flowVars>>

\* mutant of DelegateThrows: a failed iteration of the primary's stream goes
\* on with a stream of the fallback
DelegateFailsOver ==
    /\ Delegating
    /\ IF result.value.from = "primary" /\ fallbackGenerator # NullGenerator
       THEN /\ result' = Resolved(ObjectValue("absent", <<>>, "fallback"))
            /\ UNCHANGED streamPc
       ELSE /\ streamPc' = "threw"
            /\ UNCHANGED result
    /\ UNCHANGED <<pc, op, backend, attempt, lastError, primaryError,
                   log, timers, waited, invoked, completed>>
    /\ UNCHANGED <<body, received, buffer, lines, yielded, reader, returnQueued>>
    /\ UNCHANGED <<execVars, oauthVars, authVars, genVars, flowVars>>

\* yield* generator: the iteration of the stream throws; yield* rethrows,
\* outside every try block of the executor, to the caller
DelegateThrows ==
    /\ Delegating
    /\ streamPc' = "threw"
    /\ UNCHANGED <<body, received, buffer, lines, yielded, reader, returnQueued>>
    /\ UNCHANGED <<execVars, callVars, oauthVars, authVars, genVars, flowVars>>

\* the caller is done with the call (its outcome, or the fragment sequence)
StreamCallDone ==
    /\ pc = "settled"
    /\ pc' = "idle"
    /\ op' = "none"
    /\ backend' = "none"
    /\ attempt' = 0
    /\ lastError' = NoError
    /\ primaryError' = NoError
    /\ result' = NoResult
    /\ log' = <<>>
    /\ timers' = 0
    /\ waited' = <<>>
    /\ invoked' = 0
    /\ completed' = 0
    /\ streamPc' = "none"
    /\ yielded' = <<>>
    /\ UNCHANGED <<body, received, buffer, lines, reader, returnQueued>>
    /\ UNCHANGED <<execVars, oauthVars, authVars, genVars, flowVars>>

NextYield ==
    \/ initialize
    \/ PrimaryConstructed
    \/ \E e \in ConstructionErrors : PrimaryConstructionFails(e)
    \/ \E ok \in BOOLEAN : initializeFallback(ok)
    \/ \E o \in OperationNames : CallOperation(o)
    \/ generateContentStream
    \/ StreamFirstNext
    \/ \E v \in ReturnValues("primary") \cup ReturnValues("fallback") : AttemptReturns(v)
    \/ \E e \in BackendErrors : AttemptThrows(e)
    \/ AttemptTimesOut
    \/ BackoffElapsed
    \/ AbandonedSettles
    \/ DelegateYield
    \/ DelegateDone
    \/ DelegateThrows
    \/ StreamCallDone

SpecYield == Init /\ [][NextYield]_vars

(***************************************************************************)
(* DailicodeOAuth2Client                                                   *)
(***************************************************************************)
NoRobustApiClient ==
    /\ primaryAuthType = "USE_GEMINI"
    /\ options = [maxRetries |-> 1, retryDelay |-> DefaultRetryDelay,
                  enableFallback |-> FALSE, fallbackAuthType |-> "DAILICODE_OAUTH"]
    /\ primaryGenerator = NullGenerator
    /\ fallbackGenerator = NullGenerator
    /\ initPc = "constructed"
    /\ initResult = NoError
    /\ constructions = <<>>
    /\ IdleCall

\* what the cache files hold when the client is constructed
CachedAtStart ==
    { NoFile,
      FileOf(Some(Credentials("old-token", Some("refresh-token"), Some(MsPerSecond)))),
      FileOf(Some(Credentials("old-token", Null, Null))) }

\* new DailicodeOAuth2Client(): credentials = null, and loadCachedCredentials()
\* runs up to its first await: existsSync is answered at once and fs.readFile
\* is issued.  A file operation takes its effect on the file when it is
\* issued; the awaiting code resumes in a later step.
InitOAuth ==
    /\ NoRobustApiClient
    /\ credentials = Null
    /\ credFile \in CachedAtStart
    /\ userIdFile = credFile.exists
    /\ now = MsPerSecond
    /\ loadPc = IF credFile.exists THEN "reading" ELSE "done"
    /\ loadBuf = credFile.content
    /\ clearPc = "idle"
    /\ clearedSince = FALSE
    /\ ga = [c \in CallIds |-> IdleGet]
    /\ NoAuthSession
    /\ IdleGenerator
    /\ IdleStream
    /\ IdleFlow

\* a settled call hands its outcome to the caller before anything else runs
\* (the continuation of the awaiting caller is the next microtask)
NoneSettled == \A c \in DOMAIN ga : ga[c].pc # "done"

\* time passes
Tick ==
    /\ NoneSettled
    /\ now < MaxClock * MsPerSecond
    /\ now' = now + MsPerSecond
    /\ UNCHANGED <<credentials, credFile, userIdFile, loadPc, loadBuf, clearPc, clearedSince, ga>>
    /\ UNCHANGED <<execVars, callVars, authVars, genVars, streamVars, flowVars>>

\* setCredentials(c), as a step of another operation
SetTo(c) ==
    /\ credentials' = c
    /\ clearedSince' = IF c = Null THEN clearedSince ELSE FALSE

\* a caller sets credentials
setCredentials(c) ==
    /\ NoneSettled
    /\ SetTo(Some(c))
    /\ UNCHANGED <<credFile, userIdFile, now, loadPc, loadBuf, clearPc, ga>>
    /\ UNCHANGED <<execVars, callVars, authVars, genVars, streamVars, flowVars>>

\* loadCachedCredentials(): the awaited read resumes, JSON.parse, setCredentials
loadCachedCredentials ==
    /\ NoneSettled
    /\ loadPc = "reading"
    /\ SetTo(loadBuf)
    /\ loadPc' = "done"
    /\ loadBuf' = Null
    /\ UNCHANGED <<credFile, userIdFile, now, clearPc, ga>>
    /\ UNCHANGED <<execVars, callVars, authVars, genVars, streamVars, flowVars>>

\* !this.credentials?.expires_at ? false : Date.now() >= this.credentials.expires_at
isTokenExpired(creds, clock) ==
    IF creds = Null \/ ~TruthyNumber(creds[1].expires_at)
    THEN FALSE
    ELSE clock >= creds[1].expires_at[1]

Settle(c, outcome) ==
    ga' = [ga EXCEPT ![c].pc = "done", ![c].result = outcome]

TokenResult(t) == [status |-> "resolved", token |-> t, error |-> NoError]
ErrorResult(e) == [status |-> "rejected", token |-> "", error |-> e]

\* refreshAccessToken() up to its first await: the POST to the token endpoint
StartRefresh(c, started) ==
    ga' = [ga EXCEPT ![c].pc = "fetching", ![c].start = started,
                     ![c].io = <<"POST token">>]

\* mutant of AccessDecision: credentials are not checked for null
AccessDecisionNoNullCheck(creds, clock) ==
    IF creds = Null THEN "refresh"
    ELSE IF isTokenExpired(creds, clock)
         THEN (IF TruthyString(creds[1].refresh_token) THEN "refresh" ELSE "expired")
    ELSE "token"

\* the branches of getAccessToken()
AccessDecision(creds, clock) ==
    IF creds = Null THEN "unauthenticated"
    ELSE IF isTokenExpired(creds, clock)
         THEN (IF TruthyString(creds[1].refresh_token) THEN "refresh" ELSE "expired")
    ELSE "token"

\* getAccessToken() is called: it runs to its return, its throw, or the
\* await of the refresh request
getAccessToken(c) ==
    LET started == Started(credentials, now, clearedSince)
        outcome(r) == ga' = [ga EXCEPT ![c].pc = "done", ![c].start = started,
                                       ![c].result = r]
        decision == AccessDecision(credentials, now)
    IN  /\ NoneSettled
        /\ ga[c].pc = "idle"
        /\ CASE decision = "unauthenticated" -> outcome(ErrorResult(ErrUnauthenticated))
             [] decision = "expired" -> outcome(ErrorResult(ErrExpiredNoRefresh))
             [] decision = "refresh" -> StartRefresh(c, started)
             [] decision = "token" -> outcome(TokenResult(credentials[1].access_token))
        /\ UNCHANGED <<credentials, credFile, userIdFile, now, loadPc, loadBuf, clearPc, clearedSince>>
        /\ UNCHANGED <<execVars, callVars, authVars, genVars, streamVars, flowVars>>

\* mutant of RefreshRejected: the failure is swallowed and the stored token
\* returned
RefreshRejectedReturnsStored(c) ==
    /\ NoneSettled
    /\ ga[c].pc = "fetching"
    /\ Settle(c, IF credentials = Null THEN ErrorResult(ErrRefreshFailed)
                 ELSE TokenResult(credentials[1].access_token))
    /\ UNCHANGED <<credentials, credFile, userIdFile, now, loadPc, loadBuf, clearPc, clearedSince>>
    /\ UNCHANGED <<execVars, callVars, authVars, genVars, streamVars, flowVars>>

\* the token endpoint answers with a non-ok status
RefreshRejected(c) ==
    /\ NoneSettled
    /\ ga[c].pc = "fetching"
    /\ Settle(c, ErrorResult(ErrRefreshFailed))
    /\ UNCHANGED <<credentials, credFile, userIdFile, now, loadPc, loadBuf, clearPc, clearedSince>>
    /\ UNCHANGED <<execVars, callVars, authVars, genVars, streamVars, flowVars>>

\* the token endpoint answers ok with tokenData: setCredentials({...}), then
\* cacheCredentials() up to its first await (fs.mkdir)
refreshAccessToken(c, tokenData) ==
    /\ NoneSettled
    /\ ga[c].pc = "fetching"
    /\ IF ~TruthyString(tokenData.refresh_token) /\ credentials = Null
       THEN /\ Settle(c, ErrorResult(ErrTypeError))
            /\ UNCHANGED <<credentials, clearedSince>>
       ELSE /\ SetTo(Some(Credentials(
                      tokenData.access_token,
                      IF TruthyString(tokenData.refresh_token)
                          THEN tokenData.refresh_token
                          ELSE credentials[1].refresh_token,
                      IF TruthyNumber(tokenData.expires_in)
                          THEN Some(now + tokenData.expires_in[1] * MsPerSecond)
                          ELSE Null)))
            /\ ga' = [ga EXCEPT ![c].pc = "mkdir",
                                ![c].granted = Some(tokenData.access_token),
                                ![c].io = Append(@, "mkdir")]
    /\ UNCHANGED <<credFile, userIdFile, now, loadPc, loadBuf, clearPc>>
    /\ UNCHANGED <<execVars, callVars, authVars, genVars, streamVars, flowVars>>

\* cacheCredentials(): fs.mkdir is done (or throws);
\* JSON.stringify(this.credentials) and fs.writeFile, which will succeed
\* (written) or throw
CacheStringify(c, ok, written) ==
    /\ NoneSettled
    /\ ga[c].pc = "mkdir"
    /\ IF ok
       THEN /\ ga' = [ga EXCEPT ![c].pc = IF written THEN "writing" ELSE "writeFailing",
                                ![c].io = Append(@, "writeFile")]
            /\ credFile' = IF written THEN FileOf(credentials) ELSE credFile
       ELSE /\ Settle(c, ErrorResult(ErrFileSystem))
            /\ UNCHANGED credFile
    /\ UNCHANGED <<credentials, userIdFile, now, loadPc, loadBuf, clearPc, clearedSince>>
    /\ UNCHANGED <<execVars, callVars, authVars, genVars, streamVars, flowVars>>

\* cacheCredentials(): the awaited fs.writeFile is done (or has thrown);
\* refreshAccessToken returns and getAccessToken returns
\* this.credentials.access_token
cacheCredentials(c) ==
    /\ NoneSettled
    /\ ga[c].pc \in {"writing", "writeFailing"}
    /\ IF ga[c].pc = "writeFailing"
       THEN Settle(c, ErrorResult(ErrFileSystem))
       ELSE IF credentials = Null
            THEN Settle(c, ErrorResult(ErrTypeError))
            ELSE Settle(c, TokenResult(credentials[1].access_token))
    /\ UNCHANGED <<credentials, credFile, userIdFile, now, loadPc, loadBuf, clearPc, clearedSince>>
    /\ UNCHANGED <<execVars, callVars, authVars, genVars, streamVars, flowVars>>

\* the caller has the outcome of the call
GetAccessTokenDone(c) ==
    /\ ga[c].pc = "done"
    /\ ga' = [ga EXCEPT ![c] = IdleGet]
    /\ UNCHANGED <<credentials, credFile, userIdFile, now, loadPc, loadBuf, clearPc, clearedSince>>
    /\ UNCHANGED <<execVars, callVars, authVars, genVars, streamVars, flowVars>>

\* clearCachedCredentials() is called: the first fs.rm is awaited
ClearStart ==
    /\ NoneSettled
    /\ clearPc = "idle"
    /\ clearPc' = "rmCredentials"
    /\ UNCHANGED <<credentials, credFile, userIdFile, now, loadPc, loadBuf, clearedSince, ga>>
    /\ UNCHANGED <<execVars, callVars, authVars, genVars, streamVars, flowVars>>

\* the first fs.rm is done: the second is awaited; or it throws: the catch
\* logs and the function returns
ClearRmCredentials(ok) ==
    /\ NoneSettled
    /\ clearPc = "rmCredentials"
    /\ IF ok
       THEN /\ credFile' = NoFile
            /\ clearPc' = "rmUserId"
            /\ UNCHANGED clearedSince
       ELSE /\ clearPc' = "idle"
            /\ clearedSince' = TRUE
            /\ UNCHANGED credFile
    /\ UNCHANGED <<credentials, userIdFile, now, loadPc, loadBuf, ga>>
    /\ UNCHANGED <<execVars, callVars, authVars, genVars, streamVars, flowVars>>

\* the second fs.rm is done: this.credentials = null; or it throws: the
\* catch logs; the function returns
clearCachedCredentials(ok) ==
    /\ NoneSettled
    /\ clearPc = "rmUserId"
    /\ clearPc' = "idle"
    /\ clearedSince' = TRUE
    /\ IF ok
       THEN /\ userIdFile' = FALSE
            /\ credentials' = Null
       ELSE UNCHANGED <<userIdFile, credentials>>
    /\ UNCHANGED <<credFile, now, loadPc, loadBuf, ga>>
    /\ UNCHANGED <<execVars, callVars, authVars, genVars, streamVars, flowVars>>

NextOAuth ==
    \/ Tick
    \/ \E c \in CallerCredentials : setCredentials(c)
    \/ loadCachedCredentials
    \/ \E c \in DOMAIN ga : getAccessToken(c)
    \/ \E c \in DOMAIN ga : RefreshRejected(c)
    \/ \E c \in DOMAIN ga, tokenData \in TokenData : refreshAccessToken(c, tokenData)
    \/ \E c \in DOMAIN ga, ok \in BOOLEAN, written \in BOOLEAN : CacheStringify(c, ok, written)
    \/ \E c \in DOMAIN ga : cacheCredentials(c)
    \/ \E c \in DOMAIN ga : GetAccessTokenDone(c)
    \/ ClearStart
    \/ \E ok \in BOOLEAN : ClearRmCredentials(ok)
    \/ \E ok \in BOOLEAN : clearCachedCredentials(ok)

SpecOAuth == InitOAuth /\ [][NextOAuth]_vars

\* Two getAccessToken() calls on one client may overlap: the call of an
\* executor attempt abandoned on its timeout, which nothing cancels, and the
\* call of the retry that follows it.
OverlappingCalls == {"abandoned", "retry"}

\* the client holds credentials (installed by a load, by setCredentials or
\* by a web login, which may have cached them) and is otherwise at rest
InitOverlap ==
    /\ NoRobustApiClient
    /\ credentials \in { Some(c) : c \in CallerCredentials }
    /\ credFile \in {NoFile, FileOf(credentials)}
    /\ userIdFile = credFile.exists
    /\ now = MsPerSecond
    /\ loadPc = "done"
    /\ loadBuf = Null
    /\ clearPc = "idle"
    /\ clearedSince = FALSE
    /\ ga = [c \in OverlappingCalls |-> IdleGet]
    /\ NoAuthSession
    /\ IdleGenerator
    /\ IdleStream
    /\ IdleFlow

\* the steps of the calls, and the clock; nothing else touches the client
NextOverlap ==
    \/ Tick
    \/ \E c \in DOMAIN ga : getAccessToken(c)
    \/ \E c \in DOMAIN ga : RefreshRejected(c)
    \/ \E c \in DOMAIN ga, tokenData \in TokenData : refreshAccessToken(c, tokenData)
    \/ \E c \in DOMAIN ga, ok \in BOOLEAN, written \in BOOLEAN : CacheStringify(c, ok, written)
    \/ \E c \in DOMAIN ga : cacheCredentials(c)
    \/ \E c \in DOMAIN ga : GetAccessTokenDone(c)

SpecOverlap == InitOverlap /\ [][NextOverlap]_vars

(***************************************************************************)
(* authWithDailicodeWeb: one interactive authorization session             *)
(***************************************************************************)
\* largest number of requests that reach the listener in one session
MaxRequests == 2

\* crypto.randomBytes(32).toString('hex')
SessionState == "session-state"

CallbackPath == "/oauth2callback"

\* a request to the listener: the path of req.url and the query parameters
\* error, state and code
CallbackRequests ==
    [path : {CallbackPath, "/favicon.ico"},
     error : {Null, Some("access_denied")},
     state : {Null, Some(SessionState), Some("forged-state")},
     code : {Null, Some("auth-code")}]

ErrUnexpectedRequest(path) == <<"Unexpected request: ", path>>
ErrAuthorizationDenied(e) == <<"Error during DailiCode authentication: ", e>>
ErrCsrf == <<"State mismatch. Possible CSRF attack">>
ErrNoCode == <<"No authorization code found in request">>
ErrExchangeFailed == <<"Failed to exchange code for token: ", "Bad Request">>

\* reject(e) of loginCompletePromise
RejectLogin(e) ==
    login' = IF login.status = "pending"
             THEN [status |-> "rejected", error |-> e]
             ELSE login

\* resolve() of loginCompletePromise
ResolveLogin ==
    login' = IF login.status = "pending"
             THEN [status |-> "resolved", error |-> NoError]
             ELSE login

\* mutant of Finally: the listener is closed on the success path only
FinallyOnSuccess(exit) ==
    server' = IF exit = "success" THEN "closed" ELSE server

\* finally { server.close() }, whatever the exit of the handler
Finally(exit) ==
    server' = "closed"

\* the handler leaves by exit: the promise is settled (or was already) and
\* the finally block runs
HandlerExit(h, exit, e) ==
    /\ IF exit = "success" THEN ResolveLogin ELSE RejectLogin(e)
    /\ Finally(exit)
    /\ handlers' = [handlers EXCEPT ![h].pc = "finished", ![h].exit = exit]

\* the checks the handler makes on a request, in the order it makes them
RequestCheck(req) ==
    IF req.path # CallbackPath THEN "unexpectedPath"
    ELSE IF TruthyString(req.error) THEN "errorParam"
    ELSE IF req.state # Some(SessionState) THEN "stateMismatch"
    ELSE IF ~TruthyString(req.code) THEN "noCode"
    ELSE "exchange"

RequestError(req) ==
    CASE RequestCheck(req) = "unexpectedPath" -> ErrUnexpectedRequest(req.path)
      [] RequestCheck(req) = "errorParam" -> ErrAuthorizationDenied(req.error[1])
      [] RequestCheck(req) = "stateMismatch" -> ErrCsrf
      [] RequestCheck(req) = "noCode" -> ErrNoCode
      [] OTHER -> NoError

InitAuth ==
    /\ NoRobustApiClient
    /\ NoOAuthClient
    /\ IdleGenerator
    /\ IdleStream
    /\ IdleFlow
    /\ server = "listening"
    /\ login = PendingLogin
    /\ handlers = <<>>
    /\ exchanges = <<>>

\* a request reaches the listening server: the handler runs to one of its
\* early returns, or to the await of the token exchange
CallbackRequest(req) ==
    LET h == Len(handlers) + 1
        started == Append(handlers, [req |-> req, pc |-> "started", exit |-> "none"])
    IN  /\ server = "listening"
        /\ Len(handlers) < MaxRequests
        /\ IF RequestCheck(req) = "exchange"
           THEN /\ handlers' = [started EXCEPT ![h].pc = "exchanging"]
                /\ exchanges' = Append(exchanges, req.code[1])
                /\ UNCHANGED <<server, login>>
           ELSE /\ RejectLogin(RequestError(req))
                /\ Finally(RequestCheck(req))
                /\ handlers' = [started EXCEPT ![h].pc = "finished",
                                               ![h].exit = RequestCheck(req)]
                /\ UNCHANGED exchanges
        /\ UNCHANGED <<execVars, callVars, oauthVars, genVars, streamVars, flowVars>>

\* the token endpoint answers the exchange with a non-ok status: the throw is
\* caught, the promise rejected
ExchangeRejected(h) ==
    /\ h \in 1..Len(handlers)
    /\ handlers[h].pc = "exchanging"
    /\ HandlerExit(h, "exchangeFailed", ErrExchangeFailed)
    /\ UNCHANGED exchanges
    /\ UNCHANGED <<execVars, callVars, oauthVars, genVars, streamVars, flowVars>>

\* the token endpoint answers ok with tokenData: client.setCredentials(...),
\* then client.cacheCredentials() is awaited
ExchangeGranted(h, tokenData) ==
    /\ h \in 1..Len(handlers)
    /\ handlers[h].pc = "exchanging"
    /\ SetTo(Some(Credentials(
           tokenData.access_token,
           tokenData.refresh_token,
           IF TruthyNumber(tokenData.expires_in)
               THEN Some(now + tokenData.expires_in[1] * MsPerSecond)
               ELSE Null)))
    /\ handlers' = [handlers EXCEPT ![h].pc = "caching"]
    /\ UNCHANGED <<server, login, exchanges>>
    /\ UNCHANGED <<credFile, userIdFile, now, loadPc, loadBuf, clearPc, ga>>
    /\ UNCHANGED <<execVars, callVars, genVars, streamVars, flowVars>>

\* cacheCredentials() has written the file, and client.getUserInfo() is
\* awaited; or it threw, which the catch turns into a rejection
CredentialsCached(h, ok) ==
    /\ h \in 1..Len(handlers)
    /\ handlers[h].pc = "caching"
    /\ IF ok
       THEN /\ credFile' = FileOf(credentials)
            /\ handlers' = [handlers EXCEPT ![h].pc = "userInfo"]
            /\ UNCHANGED <<server, login>>
       ELSE /\ HandlerExit(h, "exception", ErrFileSystem)
            /\ UNCHANGED credFile
    /\ UNCHANGED exchanges
    /\ UNCHANGED <<credentials, userIdFile, now, loadPc, loadBuf, clearPc, clearedSince, ga>>
    /\ UNCHANGED <<execVars, callVars, genVars, streamVars, flowVars>>

\* the inner try is over (the user id was cached, or getUserInfo or the
\* write failed and the failure was logged): redirect, resolve()
UserInfoDone(h, cached) ==
    /\ h \in 1..Len(handlers)
    /\ handlers[h].pc = "userInfo"
    /\ userIdFile' = (userIdFile \/ cached)
    /\ HandlerExit(h, "success", NoError)
    /\ UNCHANGED exchanges
    /\ UNCHANGED <<credentials, credFile, now, loadPc, loadBuf, clearPc, clearedSince, ga>>
    /\ UNCHANGED <<execVars, callVars, genVars, streamVars, flowVars>>

NextAuth ==
    \/ \E req \in CallbackRequests : CallbackRequest(req)
    \/ \E h \in 1..MaxRequests : ExchangeRejected(h)
    \/ \E h \in 1..MaxRequests, tokenData \in TokenData : ExchangeGranted(h, tokenData)
    \/ \E h \in 1..MaxRequests, ok \in BOOLEAN : CredentialsCached(h, ok)
    \/ \E h \in 1..MaxRequests, cached \in BOOLEAN : UserInfoDone(h, cached)

SpecAuth == InitAuth /\ [][NextAuth]_vars

(***************************************************************************)
(* authWithWeb (Google): the callback handler of one session               *)
(***************************************************************************)
\* the chain of checks after the first if statement, which does not return
GoogleRequestCheck(req) ==
    IF TruthyString(req.error) THEN "errorParam"
    ELSE IF req.state # Some(SessionState) THEN "stateMismatch"
    ELSE IF TruthyString(req.code) THEN "exchange"
    ELSE "noCode"

GoogleRequestError(req) ==
    CASE GoogleRequestCheck(req) = "errorParam" ->
             <<"Error during authentication: ", req.error[1]>>
      [] GoogleRequestCheck(req) = "stateMismatch" -> ErrCsrf
      [] OTHER -> <<"No code found in request">>

\* the first settlement of the promise wins
Settled(l, status, e) ==
    IF l.status = "pending" THEN [status |-> status, error |-> e] ELSE l

InitGoogle ==
    /\ NoRobustApiClient
    /\ NoOAuthClient
    /\ IdleGenerator
    /\ IdleStream
    /\ IdleFlow
    /\ server = "listening"
    /\ login = PendingLogin
    /\ handlers = <<>>
    /\ exchanges = <<>>

\* a request reaches the listening server: the handler rejects for a URL
\* without /oauth2callback and goes on, to the end of the if chain and the
\* finally block, or to the await of client.getToken
GoogleCallbackRequest(req) ==
    LET h == Len(handlers) + 1
        unexpected == req.path # CallbackPath
        afterFirstIf == IF unexpected
                        THEN Settled(login, "rejected", ErrUnexpectedRequest(req.path))
                        ELSE login
        check == GoogleRequestCheck(req)
        started == [req |-> req, pc |-> "started", exit |-> "none",
                    rejected |-> unexpected, credentialsSet |-> FALSE]
    IN  /\ server = "listening"
        /\ Len(handlers) < MaxRequests
        /\ IF check = "exchange"
           THEN /\ handlers' = Append(handlers, [started EXCEPT !.pc = "exchanging"])
                /\ exchanges' = Append(exchanges, req.code[1])
                /\ login' = afterFirstIf
                /\ UNCHANGED server
           ELSE /\ login' = Settled(afterFirstIf, "rejected", GoogleRequestError(req))
                /\ Finally(check)
                /\ handlers' = Append(handlers, [started EXCEPT !.pc = "finished",
                                                                !.exit = check,
                                                                !.rejected = TRUE])
                /\ UNCHANGED exchanges
        /\ UNCHANGED <<execVars, callVars, oauthVars, genVars, streamVars, flowVars>>

\* client.getToken rejects: catch, reject(e), finally
GoogleTokenRejected(h) ==
    /\ h \in 1..Len(handlers)
    /\ handlers[h].pc = "exchanging"
    /\ RejectLogin(ErrExchangeFailed)
    /\ Finally("exchangeFailed")
    /\ handlers' = [handlers EXCEPT ![h].pc = "finished", ![h].exit = "exchangeFailed",
                                    ![h].rejected = TRUE]
    /\ UNCHANGED exchanges
    /\ UNCHANGED <<execVars, callVars, oauthVars, genVars, streamVars, flowVars>>

\* client.getToken resolves: client.setCredentials(tokens), then
\* getRawGoogleAccountId(client) is awaited
GoogleTokenGranted(h, tokenData) ==
    /\ h \in 1..Len(handlers)
    /\ handlers[h].pc = "exchanging"
    /\ SetTo(Some(Credentials(
           tokenData.access_token,
           tokenData.refresh_token,
           IF TruthyNumber(tokenData.expires_in)
               THEN Some(now + tokenData.expires_in[1] * MsPerSecond)
               ELSE Null)))
    /\ handlers' = [handlers EXCEPT ![h].pc = "accountId", ![h].credentialsSet = TRUE]
    /\ UNCHANGED <<server, login, exchanges>>
    /\ UNCHANGED <<credFile, userIdFile, now, loadPc, loadBuf, clearPc, ga>>
    /\ UNCHANGED <<execVars, callVars, genVars, streamVars, flowVars>>

\* the inner try is over: res.writeHead, res.end, resolve(); when the first
\* if statement has ended the response already, res.writeHead throws and
\* the catch calls reject(e); finally
GoogleAccountIdDone(h) ==
    /\ h \in 1..Len(handlers)
    /\ handlers[h].pc = "accountId"
    /\ IF handlers[h].rejected
       THEN HandlerExit(h, "exception", <<"ERR_HTTP_HEADERS_SENT">>)
       ELSE HandlerExit(h, "success", NoError)
    /\ UNCHANGED exchanges
    /\ UNCHANGED <<execVars, callVars, oauthVars, genVars, streamVars, flowVars>>

NextGoogle ==
    \/ \E req \in CallbackRequests : GoogleCallbackRequest(req)
    \/ \E h \in 1..MaxRequests : GoogleTokenRejected(h)
    \/ \E h \in 1..MaxRequests, tokenData \in TokenData : GoogleTokenGranted(h, tokenData)
    \/ \E h \in 1..MaxRequests : GoogleAccountIdDone(h)

SpecGoogle == InitGoogle /\ [][NextGoogle]_vars

(***************************************************************************)
(* DailicodeContentGenerator: one operation call at a time                 *)
(***************************************************************************)
\* largest number of choices in a body of the content endpoint
MaxChoices == 2

\* a choice of a body: message?.content, text, finish_reason, index
Choices ==
    [messageContent : {Null, Some(""), Some("hello")},
     text : {Null, Some("alt")},
     finish_reason : {Null, Some("length")},
     index : {Null, Some(1)}]

ChoiceLists == UNION { [1..n -> Choices] : n \in 0..MaxChoices }

\* data.usage: absent, present without counters, present with counters
Usages ==
    { Null,
      Some([prompt_tokens |-> Null, completion_tokens |-> Null, total_tokens |-> Null]),
      Some([prompt_tokens |-> Some(3), completion_tokens |-> Some(5), total_tokens |-> Some(8)]) }

\* what response.json() of /api/generate can resolve with: JSON null, an
\* object with a choices list, or an object without one
GenerateBodies ==
    {Null}
    \cup { Some([choices |-> Some(cl), content |-> Null, text |-> Null, usage |-> u]) :
             cl \in ChoiceLists, u \in Usages }
    \cup { Some([choices |-> Null, content |-> c, text |-> t, usage |-> u]) :
             c \in {Null, Some("hi")}, t \in {Null, Some("alt")}, u \in Usages }

CountBodies == { Null, Some([totalTokens |-> Null]), Some([totalTokens |-> Some(42)]) }
EmbedBodies == { Null, Some([embedding |-> Null]), Some([embedding |-> Some(<<1, 2>>)]) }

\* the answers of the content endpoint to the request of operation o
HttpResponses(o) ==
    { [ok |-> FALSE, statusText |-> t, hasBody |-> TRUE, data |-> Null] :
        t \in {"Unauthorized", "Internal Server Error"} }
    \cup { [ok |-> TRUE, statusText |-> "OK", hasBody |-> b, data |-> d] :
             b \in (IF o = "generateContentStream" THEN BOOLEAN ELSE {TRUE}),
             d \in CASE o = "generateContent" -> GenerateBodies
                     [] o = "countTokens" -> CountBodies
                     [] o = "embedContent" -> EmbedBodies
                     [] OTHER -> {Null} }

\* mutant of ErrBackend: a generic message
ErrBackendGeneric(statusText) == <<"DailiCode API error: ", "request failed">>

\* new Error(`DailiCode API error: ${response.statusText}`)
ErrBackend(statusText) == <<"DailiCode API error: ", statusText>>

ErrNoBody == <<"No response body available">>
ErrNetwork == <<"fetch failed">>

\* a || b || '' on optional strings
FirstTruthy(a, b) ==
    IF TruthyString(a) THEN a[1] ELSE IF TruthyString(b) THEN b[1] ELSE ""

\* mutant of Candidate: finish_reason is copied without a default
CandidateRawFinishReason(choice) ==
    [text |-> FirstTruthy(choice.messageContent, choice.text),
     finishReason |-> IF choice.finish_reason # Null THEN choice.finish_reason[1] ELSE "",
     index |-> IF TruthyNumber(choice.index) THEN choice.index[1] ELSE 0]

\* the candidate made of one choice
Candidate(choice) ==
    [text |-> FirstTruthy(choice.messageContent, choice.text),
     finishReason |-> IF TruthyString(choice.finish_reason)
                         THEN choice.finish_reason[1] ELSE "STOP",
     index |-> IF TruthyNumber(choice.index) THEN choice.index[1] ELSE 0]

\* data.usage?.<field> || 0
UsageCount(usage, field) ==
    IF usage # Null /\ TruthyNumber(usage[1][field]) THEN usage[1][field][1] ELSE 0

\* convertFromDailicodeFormat(data), data an object
convertFromDailicodeFormat(data) ==
    LET candidates ==
            IF data.choices # Null
            THEN [i \in 1..Len(data.choices[1]) |-> Candidate(data.choices[1][i])]
            ELSE << [text |-> FirstTruthy(data.content, data.text),
                     finishReason |-> "STOP", index |-> 0] >>
    IN  [kind |-> "content",
         candidates |-> candidates,
         usageMetadata |->
             [promptTokenCount |-> UsageCount(data.usage, "prompt_tokens"),
              candidatesTokenCount |-> UsageCount(data.usage, "completion_tokens"),
              totalTokenCount |-> UsageCount(data.usage, "total_tokens")],
         text |-> IF Len(candidates) > 0 THEN candidates[1].text ELSE ""]

GenResolved(v) == [status |-> "resolved", value |-> v, error |-> NoError]
GenRejected(e) == [status |-> "rejected", value |-> NoValue, error |-> e]

\* what operation o makes of the endpoint's answer r
OperationResult(o, r) ==
    IF ~r.ok THEN GenRejected(ErrBackend(r.statusText))
    ELSE CASE o = "generateContentStream" ->
                IF r.hasBody THEN GenResolved([kind |-> "stream"])
                ELSE GenRejected(ErrNoBody)
           [] o = "generateContent" ->
                IF r.data = Null THEN GenRejected(ErrTypeError)
                ELSE GenResolved(convertFromDailicodeFormat(r.data[1]))
           [] o = "countTokens" ->
                IF r.data = Null THEN GenRejected(ErrTypeError)
                ELSE GenResolved([kind |-> "count",
                                  totalTokens |-> IF TruthyNumber(r.data[1].totalTokens)
                                                  THEN r.data[1].totalTokens[1] ELSE 0])
           [] OTHER ->
                IF r.data = Null THEN GenRejected(ErrTypeError)
                ELSE GenResolved([kind |-> "embed",
                                  values |-> IF r.data[1].embedding # Null
                                             THEN r.data[1].embedding[1] ELSE <<>>])

\* the client the generator was constructed over
InitGen ==
    /\ NoRobustApiClient
    /\ NoAuthSession
    /\ IdleGenerator
    /\ IdleStream
    /\ IdleFlow
    /\ credentials \in {Null} \cup { Some(c) : c \in CallerCredentials }
    /\ credFile = NoFile
    /\ userIdFile = FALSE
    /\ now = MsPerSecond
    /\ loadPc = "done"
    /\ loadBuf = Null
    /\ clearPc = "idle"
    /\ clearedSince = FALSE
    /\ ga = [c \in CallIds |-> IdleGet]

\* an operation is called: await this.client.getAccessToken()
GeneratorCall(o) ==
    /\ genPc = "idle"
    /\ genPc' = "token"
    /\ genOp' = o
    /\ UNCHANGED <<accessToken, fetched, response, genResult>>
    /\ UNCHANGED <<execVars, callVars, oauthVars, authVars, streamVars, flowVars>>

\* mutant of TokenFailure: the error is wrapped
TokenFailureWrapped(e) == GenRejected(<<"DailiCode API error: ">> \o e)

\* a rejection of the awaited getAccessToken() leaves the async function as it is
TokenFailure(e) == GenRejected(e)

\* the await of getAccessToken() is over with the token t: fetch(...) with
\* the bearer header is awaited
SendRequest(t) ==
    /\ accessToken' = TokenResult(t)
    /\ fetched' = Append(fetched, [operation |-> genOp, bearer |-> t])
    /\ genPc' = "fetching"
    /\ UNCHANGED <<genOp, response, genResult>>

\* the await of getAccessToken() is over with the error e
TokenRejected(e) ==
    /\ accessToken' = ErrorResult(e)
    /\ genResult' = TokenFailure(e)
    /\ genPc' = "done"
    /\ UNCHANGED <<genOp, fetched, response>>

\* getAccessToken() settles without a refresh
TokenSettles ==
    LET decision == AccessDecision(credentials, now)
    IN  /\ genPc = "token"
        /\ CASE decision = "unauthenticated" -> TokenRejected(ErrUnauthenticated)
             [] decision = "expired" -> TokenRejected(ErrExpiredNoRefresh)
             [] decision = "token" -> SendRequest(credentials[1].access_token)
             [] OTHER -> FALSE
        /\ UNCHANGED <<execVars, callVars, oauthVars, authVars, streamVars, flowVars>>

\* getAccessToken() refreshes and the token endpoint refuses
TokenRefreshFails ==
    /\ genPc = "token"
    /\ AccessDecision(credentials, now) = "refresh"
    /\ TokenRejected(ErrRefreshFailed)
    /\ UNCHANGED <<execVars, callVars, oauthVars, authVars, streamVars, flowVars>>

\* getAccessToken() refreshes and the token endpoint grants tokenData
TokenRefreshed(tokenData) ==
    /\ genPc = "token"
    /\ AccessDecision(credentials, now) = "refresh"
    /\ SetTo(Some(Credentials(
           tokenData.access_token,
           IF TruthyString(tokenData.refresh_token)
               THEN tokenData.refresh_token
               ELSE credentials[1].refresh_token,
           IF TruthyNumber(tokenData.expires_in)
               THEN Some(now + tokenData.expires_in[1] * MsPerSecond)
               ELSE Null)))
    /\ SendRequest(tokenData.access_token)
    /\ UNCHANGED <<credFile, userIdFile, now, loadPc, loadBuf, clearPc, ga>>
    /\ UNCHANGED <<execVars, callVars, authVars, streamVars, flowVars>>

\* the content endpoint answers
FetchAnswers ==
    /\ genPc = "fetching"
    /\ \E r \in HttpResponses(genOp) :
          /\ response' = r
          /\ genResult' = OperationResult(genOp, r)
    /\ genPc' = "done"
    /\ UNCHANGED <<genOp, accessToken, fetched>>
    /\ UNCHANGED <<execVars, callVars, oauthVars, authVars, streamVars, flowVars>>

\* fetch rejects (no answer)
FetchFails ==
    /\ genPc = "fetching"
    /\ genResult' = GenRejected(ErrNetwork)
    /\ genPc' = "done"
    /\ UNCHANGED <<genOp, accessToken, fetched, response>>
    /\ UNCHANGED <<execVars, callVars, oauthVars, authVars, streamVars, flowVars>>

\* the caller has the outcome
GeneratorDone ==
    /\ genPc = "done"
    /\ genPc' = "idle"
    /\ genOp' = "none"
    /\ accessToken' = NoToken
    /\ fetched' = <<>>
    /\ response' = NoResponse
    /\ genResult' = NoOutcome
    /\ UNCHANGED <<execVars, callVars, oauthVars, authVars, streamVars, flowVars>>

NextGen ==
    \/ \E o \in OperationNames : GeneratorCall(o)
    \/ TokenSettles
    \/ TokenRefreshFails
    \/ \E tokenData \in TokenData : TokenRefreshed(tokenData)
    \/ FetchAnswers
    \/ FetchFails
    \/ GeneratorDone

SpecGen == InitGen /\ [][NextGen]_vars

\* executeWithFallback's check of what a generator's generateContent resolved
\* with: the response object has a candidates property
ExecutorAccepts(outcome) ==
    /\ outcome.status = "resolved"
    /\ isValidResponse(ObjectValue("array", outcome.value.candidates, "primary"))

(***************************************************************************)
(* generateContentStream: the fragment sequence over the response body     *)
(***************************************************************************)

MaxLines == 3

\* The text of the body is a sequence of symbols: "A" and "B" are each the
\* whole text of a line `data: {"type":"content","content":...}`, "X" is
\* the text of a line that starts with `data: ` and is not JSON, "T" the
\* text of a line `data: {"type":...}` of another type, "nl" is the newline.
EventTexts == {"A", "B"}
LineTexts == EventTexts \cup {"X", "T"}

RECURSIVE JoinLines(_)
JoinLines(ls) ==
    IF ls = <<>> THEN <<>> ELSE <<Head(ls), "nl">> \o JoinLines(Tail(ls))

\* the bodies: up to MaxLines lines, the last one with or without its
\* newline; the stream ends or fails
BodyTexts ==
    LET joined == {JoinLines(ls) :
                      ls \in UNION {[1..n -> LineTexts] : n \in 0..MaxLines}}
    IN  joined \cup {SubSeq(t, 1, Len(t) - 1) : t \in joined \ {<<>>}}

Bodies == [text : BodyTexts, end : {"done", "error"}]

\* buffer.split('\n') and lines.pop() || '': the complete lines and the rest
RECURSIVE SplitLines(_, _, _)
SplitLines(text, current, complete) ==
    IF text = <<>> THEN [lines |-> complete, rest |-> current]
    ELSE IF Head(text) = "nl"
         THEN SplitLines(Tail(text), <<>>, Append(complete, current))
         ELSE SplitLines(Tail(text), Append(current, Head(text)), complete)

\* line.trim() && line.startsWith('data: '), JSON.parse(line.slice(6))
\* succeeds and data.type === 'content'
IsContentEvent(line) == Len(line) = 1 /\ line[1] \in EventTexts

\* the object JSON.parse makes of the line
EventData(line) ==
    [choices |-> Null, content |-> Some(line[1]), text |-> Null, usage |-> Null]

\* mutant of FirstEvent: a line that is not an event hides the lines after it
FirstEventUnlessMalformed(ls) ==
    IF ls # <<>> /\ IsContentEvent(ls[1]) THEN 1 ELSE 0

\* the for loop over lines, up to its next yield: the index of the first
\* line that yields, 0 when the loop runs to its end (a line whose
\* JSON.parse throws is caught and warned about)
FirstEvent(ls) ==
    IF \E i \in 1..Len(ls) : IsContentEvent(ls[i])
    THEN CHOOSE i \in 1..Len(ls) :
             /\ IsContentEvent(ls[i])
             /\ \A j \in 1..(i - 1) : ~IsContentEvent(ls[j])
    ELSE 0

\* reader.read() is called
Read(r) == [r EXCEPT !.pending = TRUE, !.misused = @ \/ r.released > 0]

\* the read settles
ReadSettled(r) == [r EXCEPT !.pending = FALSE]

\* mutant of ReleaseLock: the lock is kept
ReleaseLockNever(r) == r

\* reader.releaseLock() in the finally block
ReleaseLock(r) ==
    [r EXCEPT !.released = @ + 1, !.misused = @ \/ r.pending \/ r.released > 0]

\* the loop from the for statement on: yield the next fragment, or go round
\* the while loop to the next reader.read()
ForLoop(ls, r) ==
    LET i == FirstEvent(ls)
    IN  IF i > 0
        THEN /\ yielded' = Append(yielded, convertFromDailicodeFormat(EventData(ls[i])))
             /\ lines' = SubSeq(ls, i + 1, Len(ls))
             /\ streamPc' = "suspendedYield"
             /\ reader' = r
        ELSE /\ yielded' = yielded
             /\ lines' = <<>>
             /\ streamPc' = "reading"
             /\ reader' = Read(r)

InitStream ==
    /\ NoRobustApiClient
    /\ NoOAuthClient
    /\ NoAuthSession
    /\ IdleGenerator
    /\ IdleFlow
    /\ streamPc = "suspendedStart"
    /\ body \in Bodies
    /\ received = <<>>
    /\ buffer = <<>>
    /\ lines = <<>>
    /\ yielded = <<>>
    /\ reader = LockedReader
    /\ returnQueued = FALSE

\* the consumer asks for the next fragment: the body starts (try, while,
\* reader.read()) or goes on after the yield it was suspended at
IteratorNext ==
    /\ streamPc \in {"suspendedStart", "suspendedYield"}
    /\ ~returnQueued
    /\ ForLoop(lines, reader)
    /\ UNCHANGED <<body, received, buffer, returnQueued>>
    /\ UNCHANGED <<execVars, callVars, oauthVars, authVars, genVars, flowVars>>

\* reader.read() resolves with a chunk: decode, split, keep the rest
ReadChunk ==
    /\ streamPc = "reading"
    /\ \E n \in 1..Len(body.text) :
          LET value == SubSeq(body.text, 1, n)
              split == SplitLines(buffer \o value, <<>>, <<>>)
          IN  /\ body' = [body EXCEPT !.text = SubSeq(body.text, n + 1, Len(body.text))]
              /\ received' = received \o value
              /\ buffer' = split.rest
              /\ ForLoop(split.lines, ReadSettled(reader))
    /\ UNCHANGED returnQueued
    /\ UNCHANGED <<execVars, callVars, oauthVars, authVars, genVars, flowVars>>

\* reader.read() resolves with done: break, finally
ReadDone ==
    /\ streamPc = "reading"
    /\ body.text = <<>>
    /\ body.end = "done"
    /\ streamPc' = "completed"
    /\ reader' = ReleaseLock(ReadSettled(reader))
    /\ returnQueued' = FALSE
    /\ UNCHANGED <<body, received, buffer, lines, yielded>>
    /\ UNCHANGED <<execVars, callVars, oauthVars, authVars, genVars, flowVars>>

\* reader.read() rejects: finally, and the error leaves the generator
ReadFails ==
    /\ streamPc = "reading"
    /\ body.end = "error"
    /\ streamPc' = "threw"
    /\ reader' = ReleaseLock(ReadSettled(reader))
    /\ returnQueued' = FALSE
    /\ UNCHANGED <<body, received, buffer, lines, yielded>>
    /\ UNCHANGED <<execVars, callVars, oauthVars, authVars, genVars, flowVars>>

\* the consumer ends the iteration (break / return()): at a yield the
\* finally block runs now; during a read the request waits in the queue;
\* before the first next() the body never runs
IteratorReturn ==
    /\ streamPc \in {"suspendedStart", "suspendedYield", "reading"}
    /\ ~returnQueued
    /\ IF streamPc = "suspendedYield"
       THEN /\ streamPc' = "returned"
            /\ reader' = ReleaseLock(reader)
            /\ UNCHANGED returnQueued
       ELSE IF streamPc = "reading"
       THEN /\ returnQueued' = TRUE
            /\ UNCHANGED <<streamPc, reader>>
       ELSE /\ streamPc' = "neverStarted"
            /\ UNCHANGED <<reader, returnQueued>>
    /\ UNCHANGED <<body, received, buffer, lines, yielded>>
    /\ UNCHANGED <<execVars, callVars, oauthVars, authVars, genVars, flowVars>>

\* the queued return() is taken at the yield that answered the next() before it
QueuedReturn ==
    /\ streamPc = "suspendedYield"
    /\ returnQueued
    /\ streamPc' = "returned"
    /\ reader' = ReleaseLock(reader)
    /\ returnQueued' = FALSE
    /\ UNCHANGED <<body, received, buffer, lines, yielded>>
    /\ UNCHANGED <<execVars, callVars, oauthVars, authVars, genVars, flowVars>>

NextStream ==
    \/ IteratorNext
    \/ ReadChunk
    \/ ReadDone
    \/ ReadFails
    \/ IteratorReturn
    \/ QueuedReturn

SpecStream == InitStream /\ [][NextStream]_vars

(***************************************************************************)
(* getDailicodeOauthClient: cached credentials, then the web flow          *)
(***************************************************************************)
\* what the function has done so far: the step, and whether a cache file
\* (credentials or user id) was on disk when it was taken
Step(name) == [step |-> name, cached |-> credFile.exists \/ userIdFile]

Did(name) == flowTrace' = Append(flowTrace, Step(name))

\* new DailicodeOAuth2Client() (its constructor starts a load of its own),
\* then client.loadCachedCredentials() is awaited
InitLogin ==
    /\ NoRobustApiClient
    /\ credentials = Null
    /\ credFile \in CachedAtStart
    /\ userIdFile = credFile.exists
    /\ now = MsPerSecond
    /\ loadPc = IF credFile.exists THEN "reading" ELSE "done"
    /\ loadBuf = credFile.content
    /\ clearPc = "idle"
    /\ clearedSince = FALSE
    /\ ga = [c \in CallIds |-> IdleGet]
    /\ NoAuthSession
    /\ IdleGenerator
    /\ IdleStream
    /\ flowPc = "loading"
    /\ flowTrace = <<>>

\* await client.loadCachedCredentials() answers: true after readFile,
\* JSON.parse and setCredentials; false when the file does not exist or the
\* read fails; on false authWithDailicodeWeb(client) is called
CacheLoaded(ok) ==
    /\ flowPc = "loading"
    /\ ok => credFile.exists
    /\ IF ok
       THEN /\ SetTo(credFile.content)
            /\ flowPc' = "checking"
            /\ Did("loaded")
       ELSE /\ flowPc' = "starting"
            /\ Did("notLoaded")
            /\ UNCHANGED <<credentials, clearedSince>>
    /\ UNCHANGED <<credFile, userIdFile, now, loadPc, loadBuf, clearPc, ga>>
    /\ UNCHANGED <<execVars, callVars, authVars, genVars, streamVars>>

\* await client.getUserInfo() answers: the client is returned, or the catch
\* calls client.clearCachedCredentials(), whose first fs.rm is awaited
UserInfoChecked(ok) ==
    /\ flowPc = "checking"
    /\ clearPc = "idle"
    /\ IF ok
       THEN /\ flowPc' = "returned"
            /\ Did("checkOk")
            /\ UNCHANGED clearPc
       ELSE /\ flowPc' = "clearing"
            /\ Did("checkFailed")
            /\ clearPc' = "rmCredentials"
    /\ UNCHANGED <<credentials, credFile, userIdFile, now, loadPc, loadBuf, clearedSince, ga>>
    /\ UNCHANGED <<execVars, callVars, authVars, genVars, streamVars>>

\* await client.clearCachedCredentials() returns: authWithDailicodeWeb(client)
\* is called
CacheCleared ==
    /\ flowPc = "clearing"
    /\ clearPc = "idle"
    /\ flowPc' = "starting"
    /\ Did("cleared")
    /\ UNCHANGED <<execVars, callVars, oauthVars, authVars, genVars, streamVars>>

\* authWithDailicodeWeb: getAvailablePort() answers and server.listen(port)
\* is called, then open(webLogin.authUrl); or getAvailablePort() rejects
ListenerStarted(ok) ==
    /\ flowPc = "starting"
    /\ IF ok
       THEN /\ server' = "listening"
            /\ flowPc' = "opening"
            /\ Did("listen")
       ELSE /\ flowPc' = "rejected"
            /\ UNCHANGED <<server, flowTrace>>
    /\ UNCHANGED <<login, handlers, exchanges>>
    /\ UNCHANGED <<execVars, callVars, oauthVars, genVars, streamVars>>

\* await open(authUrl) answers: loginCompletePromise is awaited, or the
\* rejection leaves the function
BrowserOpened(ok) ==
    /\ flowPc = "opening"
    /\ flowPc' = IF ok THEN "waiting" ELSE "rejected"
    /\ Did("open")
    /\ UNCHANGED <<execVars, callVars, oauthVars, authVars, genVars, streamVars>>

\* await webLogin.loginCompletePromise answers
LoginCompleted ==
    /\ flowPc = "waiting"
    /\ login.status # "pending"
    /\ flowPc' = IF login.status = "resolved" THEN "returned" ELSE "rejected"
    /\ UNCHANGED flowTrace
    /\ UNCHANGED <<execVars, callVars, oauthVars, authVars, genVars, streamVars>>

NextLogin ==
    \/ \E ok \in BOOLEAN : CacheLoaded(ok)
    \/ loadCachedCredentials
    \/ \E ok \in BOOLEAN : UserInfoChecked(ok)
    \/ \E ok \in BOOLEAN : ClearRmCredentials(ok)
    \/ \E ok \in BOOLEAN : clearCachedCredentials(ok)
    \/ CacheCleared
    \/ \E ok \in BOOLEAN : ListenerStarted(ok)
    \/ \E ok \in BOOLEAN : BrowserOpened(ok)
    \/ NextAuth
    \/ LoginCompleted

SpecLogin == InitLogin /\ [][NextLogin]_vars

(***************************************************************************)
(* Properties of the RobustApiClient (checked under Spec)                  *)
(***************************************************************************)
\* the attempts of the call made on backend b, in order
AttemptsOn(b) == SelectSeq(log, LAMBDA a : a.backend = b)

\* an attempt failed: it threw, timed out, or its response was rejected
AttemptFailed(a) ==
    a.kind \in {"threw", "timedOut"} \/ ~isValidResponse(a.value)

\* the error a failed attempt stands for
AttemptError(a) ==
    IF a.kind = "returned"
    THEN (IF a.backend = "primary" THEN ErrInvalidPrimary ELSE ErrInvalidFallback)
    ELSE a.error

FallbackUsable == fallbackGenerator # NullGenerator /\ options.enableFallback

\* the text sub occurs in the text msg
Contains(msg, sub) ==
    \E i \in 1..(Len(msg) - Len(sub) + 1) : SubSeq(msg, i, i + Len(sub) - 1) = sub

\* C1: with both generators present, when every primary attempt failed and
\* the fallback's first attempt returned a valid response, the settled call
\* has made exactly maxRetries primary attempts followed by exactly one
\* fallback attempt, and has resolved with the fallback's result.
C1_FailoverAfterAllRetries ==
    ( /\ pc = "settled"
      /\ primaryGenerator # NullGenerator
      /\ FallbackUsable
      /\ \A i \in 1..Len(AttemptsOn("primary")) : AttemptFailed(AttemptsOn("primary")[i])
      /\ Len(AttemptsOn("fallback")) >= 1
      /\ ~AttemptFailed(AttemptsOn("fallback")[1]) )
    => /\ Len(AttemptsOn("primary")) = options.maxRetries
       /\ Len(AttemptsOn("fallback")) = 1
       /\ log = AttemptsOn("primary") \o AttemptsOn("fallback")
       /\ result = Resolved(log[Len(log)].value)

\* C2: without a usable fallback, a call whose primary failed all
\* maxRetries attempts is rejected with exactly the error of the primary's
\* last attempt, and no fallback attempt was made.
C2_PrimaryErrorPropagates ==
    ( /\ pc = "settled"
      /\ primaryGenerator # NullGenerator
      /\ ~FallbackUsable
      /\ Len(AttemptsOn("primary")) = options.maxRetries
      /\ \A i \in 1..Len(log) : AttemptFailed(log[i]) )
    => /\ result = Rejected(AttemptError(log[Len(log)]))
       /\ AttemptsOn("fallback") = <<>>

C2_Witness ==
    /\ pc = "settled"
    /\ ~FallbackUsable
    /\ options.maxRetries = 3
    /\ Len(log) = 3
    /\ log[1].error = <<"e1">>
    /\ log[3].error = <<"e2">>
    /\ result = Rejected(<<"e2">>)

\* C3: a call rejected after the fallback was tried surfaces an error that
\* contains the primary's failure message and the fallback's failure message.
C3_CombinedErrorHasBothMessages ==
    ( /\ pc = "settled"
      /\ result.status = "rejected"
      /\ AttemptsOn("fallback") # <<>> )
    => /\ Contains(result.error,
                   AttemptError(AttemptsOn("primary")[Len(AttemptsOn("primary"))]))
       /\ Contains(result.error, AttemptError(log[Len(log)]))

C3_Witness ==
    /\ pc = "settled"
    /\ result.status = "rejected"
    /\ Len(log) = options.maxRetries + 1
    /\ log[1].backend = "primary"
    /\ log[1].kind = "returned"
    /\ log[Len(log)].backend = "fallback"
    /\ log[Len(log)].error = <<"e2">>
    /\ options.maxRetries >= 2

\* C4: the executor's generateContent never resolves with a response whose
\* candidates is empty.
C4_EmptyCandidatesNeverReturned ==
    (pc = "settled" /\ op = "generateContent" /\ result.status = "resolved")
    => ~(result.value.candField = "array" /\ result.value.candidates = <<>>)

\* a primary answered candidates: [] and the call went on to the fallback
C4_Witness ==
    /\ op = "generateContent"
    /\ Len(log) >= 1
    /\ log[1].kind = "returned"
    /\ log[1].value.candField = "array"
    /\ log[1].value.candidates = <<>>
    /\ backend = "fallback"
    /\ pc = "awaiting"

\* C5: an attempt that completed with an invalid response before the retry
\* budget was used up is followed by a retry on the same backend.
C5_InvalidResponseIsRetried ==
    \A i \in 1..Len(log) :
        ( /\ log[i].kind = "returned"
          /\ ~isValidResponse(log[i].value)
          /\ log[i].attempt < options.maxRetries )
        => IF i < Len(log)
           THEN /\ log[i + 1].backend = log[i].backend
                /\ log[i + 1].attempt = log[i].attempt + 1
           ELSE /\ pc \in {"backoff", "awaiting"}
                /\ backend = log[i].backend
                /\ attempt \in {log[i].attempt, log[i].attempt + 1}

\* C6: no fallback attempt is started while fewer than maxRetries primary
\* attempts have been made, and no primary attempt follows a fallback attempt.
C6_FallbackOnlyAfterFullBudget ==
    /\ (backend = "fallback" \/ AttemptsOn("fallback") # <<>>)
          => Len(AttemptsOn("primary")) = options.maxRetries
    /\ log = AttemptsOn("primary") \o AttemptsOn("fallback")
    /\ (backend = "primary" /\ pc \in {"awaiting", "backoff"})
          => AttemptsOn("fallback") = <<>>

\* C7: without a primary generator an operation call, once its body runs,
\* is rejected with NoGeneratorAvailable, having made no attempt on any
\* backend and set no timer.
C7_NoGeneratorFailsImmediately ==
    (primaryGenerator = NullGenerator /\ pc \notin {"idle", "suspended"})
    => /\ pc = "settled"
       /\ result = Rejected(ErrNoGenerator)
       /\ log = <<>>
       /\ timers = 0
       /\ waited = <<>>

\* the primary's construction failed and the fallback's succeeded
C7_Witness ==
    /\ initPc = "resolved"
    /\ primaryGenerator = NullGenerator
    /\ fallbackGenerator # NullGenerator
    /\ pc = "settled"
    /\ op = "generateContentStream"
    /\ result = Rejected(ErrNoGenerator)

\* C17: when initialize() has ended after the construction of the primary
\* failed, with the fallback enabled and no fallback generator constructed,
\* it has rejected with the primary's construction error.
C17_InitializeRejectsWhenBothFail ==
    ( /\ initPc \in {"resolved", "rejected"}
      /\ primaryGenerator = NullGenerator
      /\ options.enableFallback
      /\ fallbackGenerator = NullGenerator )
    => /\ initPc = "rejected"
       /\ initResult \in ConstructionErrors

\* C18: when both generators exist their backend identities differ, and the
\* construction of a fallback is only ever attempted for an identity other
\* than the primary's.
C18_GeneratorsAreDistinct ==
    /\ (primaryGenerator # NullGenerator /\ fallbackGenerator # NullGenerator)
          => primaryGenerator # fallbackGenerator
    /\ (\E i \in 1..Len(constructions) : constructions[i] = "fallback")
          => options.fallbackAuthType # primaryAuthType

\* both generators were constructed and a call is running on the fallback
C18_Witness ==
    /\ primaryGenerator # NullGenerator
    /\ fallbackGenerator # NullGenerator
    /\ backend = "fallback"
    /\ pc = "awaiting"

\* C19: at no time are two backend invocations started by one operation
\* call outstanding together.
C19_AttemptsAreSequential ==
    Outstanding <= 1

\* C23: a generateContent call never resolves with a response that is
\* null, not an object, or an object without a non-empty candidates array.
C23_OnlyNonEmptyCandidatesAreValid ==
    (pc = "settled" /\ op = "generateContent" /\ result.status = "resolved")
    => /\ result.value.type = "object"
       /\ result.value.candField = "array"
       /\ Len(result.value.candidates) > 0

\* the invocations that settled after their attempt had been abandoned
LateArrivals ==
    completed - Cardinality({ i \in 1..Len(log) : log[i].kind \in {"returned", "threw"} })

\* C24: an attempt lost to the timer fails with the Timeout error and
\* carries no value; every invocation is the outcome of its own attempt
\* only; a call resolves with the value its last attempt returned, and a
\* call whose last attempt timed out is rejected with an error that holds
\* the Timeout error, whatever settled late.
C24_TimeoutAbandonsAttempt ==
    /\ \A i \in 1..Len(log) :
          log[i].kind = "timedOut"
          => /\ log[i].error = ErrTimeout
             /\ log[i].value = NullValue
    /\ invoked = Len(log) + (IF pc = "awaiting" THEN 1 ELSE 0)
    /\ (pc = "settled" /\ result.status = "resolved")
          => /\ log[Len(log)].kind = "returned"
             /\ result.value = log[Len(log)].value
    /\ (pc = "settled" /\ log # <<>> /\ log[Len(log)].kind = "timedOut")
          => /\ result.status = "rejected"
             /\ Contains(result.error, ErrTimeout)

\* the first attempt timed out, its invocation settled late, and the call
\* resolved with what a later attempt returned
C24_Witness ==
    /\ pc = "settled"
    /\ Len(log) >= 2
    /\ log[1].kind = "timedOut"
    /\ LateArrivals >= 1
    /\ result.status = "resolved"

\* the backoff waits that the attempts in the log call for: after a thrown
\* or timed-out attempt number k < maxRetries, retryDelay * 2^(k-1)
RECURSIVE ExpectedWaits(_)
ExpectedWaits(attempts) ==
    IF attempts = <<>> THEN <<>>
    ELSE LET a == Head(attempts)
         IN  ( IF a.kind \in {"threw", "timedOut"} /\ a.attempt < options.maxRetries
               THEN << options.retryDelay * 2^(a.attempt - 1) >>
               ELSE <<>> ) \o ExpectedWaits(Tail(attempts))

\* C25: the waits of a call are exactly, in order, retryDelay * 2^(k-1)
\* after each failed attempt k < maxRetries of executeWithRetry; there is no
\* wait before a first attempt, after a last failed attempt or after an
\* attempt that returned, and the fallback's waits start again at retryDelay.
C25_ExponentialBackoff ==
    /\ waited = ExpectedWaits(log)
    /\ pc = "backoff"
          => /\ log # <<>>
             /\ log[Len(log)].kind \in {"threw", "timedOut"}
             /\ log[Len(log)].attempt < options.maxRetries

\* two waits on the primary, then the fallback starts again at retryDelay
C25_Witness ==
    /\ options.maxRetries = 3
    /\ backend = "fallback"
    /\ pc = "backoff"
    /\ waited = <<DefaultRetryDelay, 2 * DefaultRetryDelay, DefaultRetryDelay>>

\* C26: the attempts on one backend are numbered 1, 2, ... and never more
\* than maxRetries; an attempt that returned is the last on its backend;
\* a thrown error and a timeout each count as one attempt.
C26_AttemptsBounded ==
    \A b \in {"primary", "fallback"} :
        LET on == AttemptsOn(b)
        IN  /\ Len(on) <= options.maxRetries
            /\ \A i \in 1..Len(on) :
                  /\ on[i].attempt = i
                  /\ on[i].kind = "returned" => i = Len(on)
            /\ backend = b /\ pc \in {"awaiting", "backoff"}
                  => /\ attempt <= options.maxRetries
                     /\ \A i \in 1..Len(on) : on[i].kind # "returned"

\* the budget of three was used up by failures of both kinds
C26_Witness ==
    /\ pc = "settled"
    /\ options.maxRetries = 3
    /\ Len(AttemptsOn("primary")) = 3
    /\ log[1].kind = "threw"
    /\ log[2].kind = "timedOut"
    /\ log[3].kind = "threw"
    /\ AttemptsOn("fallback") = <<>>

\* C31: a call that is running (an attempt awaited, or a backoff wait)
\* eventually settles, whatever the backends do, and never makes more than
\* 2 * maxRetries attempts.
C31_EveryCallSettles ==
    /\ [](invoked <= 2 * options.maxRetries)
    /\ [](pc \in {"awaiting", "backoff"} => <>(pc = "settled"))

\* a call settled although no backend ever answered: every attempt of both
\* budgets ran into its timer
C31_Witness ==
    /\ pc = "settled"
    /\ options.maxRetries > 1
    /\ Len(log) = 2 * options.maxRetries
    /\ \A i \in 1..Len(log) : log[i].kind = "timedOut"

ConstructionsOf(g) == {i \in 1..Len(constructions) : constructions[i] = g}

\* C32: during one initialize() call the construction of the primary
\* generator is attempted at most once and the construction of the fallback
\* generator is attempted at most once.
C32_ConstructionNeverRetried ==
    /\ Cardinality(ConstructionsOf("primary")) <= 1
    /\ Cardinality(ConstructionsOf("fallback")) <= 1

\* C33: after initialize() has resolved, a call that has settled made at
\* least one attempt, on a backend whose generator was constructed, and did
\* not fail for want of a generator.
C33_ResolvedInitializeIsUsable ==
    (initPc = "resolved" /\ pc = "settled") =>
        /\ log # <<>>
        /\ result # Rejected(ErrNoGenerator)
        /\ \A i \in 1..Len(log) :
               IF log[i].backend = "primary"
               THEN primaryGenerator # NullGenerator
               ELSE fallbackGenerator # NullGenerator

\* C38: every fragment a generateContentStream call yields comes from the
\* stream executeWithFallback resolved with, the result of the last attempt
\* of the call, so all of them come from one backend; and once the iteration
\* of that stream has failed the call is over: no attempt is made, on either
\* backend, and nothing more is yielded.
C38_FragmentsFromOneBackend ==
    /\ yielded # <<>> =>
           /\ pc = "settled"
           /\ op = "generateContentStream"
           /\ log[Len(log)].kind = "returned"
           /\ \A i \in 1..Len(yielded) : yielded[i].from = log[Len(log)].backend
    /\ streamPc \in {"threw", "completed"} =>
           /\ pc = "settled"
           /\ result.status = "resolved"
           /\ invoked = Len(log)

\* the primary's stream failed after a fragment, with a fallback at hand
C38_Witness ==
    /\ streamPc = "threw"
    /\ yielded # <<>>
    /\ yielded[1].from = "primary"
    /\ fallbackGenerator # NullGenerator
    /\ options.enableFallback

(***************************************************************************)
(* Properties of the DailicodeOAuth2Client (checked under SpecOAuth)       *)
(***************************************************************************)
\* the refresh requests a getAccessToken() call has sent
RefreshRequests(c) == Len(SelectSeq(ga[c].io, LAMBDA x : x = "POST token"))

\* C8: a getAccessToken() call made with expires_at in the past and a
\* refresh_token present sends exactly one refresh request and returns the
\* token the endpoint granted; made with expires_at in the future it sends no
\* refresh request and returns the stored access token.
C8_RefreshExactlyWhenExpired ==
    \A c \in DOMAIN ga :
        ga[c].pc = "done" =>
            /\ (ga[c].start.expiry = "past" /\ ga[c].start.refresh)
                  => /\ RefreshRequests(c) = 1
                     /\ ga[c].granted # Null
                           => ga[c].result = TokenResult(ga[c].granted[1])
            /\ ga[c].start.expiry = "future"
                  => /\ RefreshRequests(c) = 0
                     /\ ga[c].result = TokenResult(ga[c].start.token)

\* C9: a getAccessToken() call made while the client holds no credentials
\* is rejected with Unauthenticated at once, having started no I/O.
C9_NoCredentialsUnauthenticated ==
    \A c \in DOMAIN ga :
        (ga[c].pc # "idle" /\ ga[c].start.expiry = "null")
        => /\ ga[c].pc = "done"
           /\ ga[c].result = ErrorResult(ErrUnauthenticated)
           /\ ga[c].io = <<>>
           /\ ga[c].granted = Null

\* the cache file exists, the constructor's load has not finished, and the
\* call is rejected
C9_Witness ==
    \E c \in DOMAIN ga :
        /\ ga[c].pc = "done"
        /\ ga[c].start.expiry = "null"
        /\ credFile.exists
        /\ loadPc = "reading"
        /\ ga[c].result = ErrorResult(ErrUnauthenticated)

\* C10: once clearCachedCredentials() has returned, and until credentials
\* are set again, the in-memory credentials are null and getAccessToken() is
\* rejected with Unauthenticated (the part of the cleared state that does
\* not rest on the file system carrying out the removals).
C10_ClearedMeansUnauthenticated ==
    clearedSince =>
        /\ credentials = Null
        /\ \A c \in DOMAIN ga :
              (ga[c].pc = "done" /\ ga[c].start.cleared)
              => ga[c].result = ErrorResult(ErrUnauthenticated)

\* C22: a getAccessToken() call that resolves returns the access token of
\* credentials that have no expires_at or whose expires_at is later than the
\* current time.
C22_ReturnedTokenIsCurrent ==
    \A c \in DOMAIN ga :
        (ga[c].pc = "done" /\ ga[c].result.status = "resolved")
        => /\ credentials # Null
           /\ credentials[1].access_token = ga[c].result.token
           /\ \/ credentials[1].expires_at = Null
              \/ credentials[1].expires_at[1] > now

\* C27: when a getAccessToken() call that was granted a refresh resolves or
\* rejects, the credential cache file holds the in-memory credentials.
C27_RefreshIsPersisted ==
    \A c \in DOMAIN ga :
        (ga[c].pc = "done" /\ ga[c].granted # Null)
        => credFile = FileOf(credentials)

\* C35: when the constructor's background load completes after credentials
\* were installed (the client holds credentials) or after
\* clearCachedCredentials() returned, it leaves the in-memory credentials as
\* they are.
C35_BackgroundLoadNeverOverrides ==
    [][ ( /\ loadPc = "reading"
          /\ loadPc' = "done"
          /\ (credentials # Null \/ clearedSince) )
        => credentials' = credentials ]_vars

\* C36: when the token endpoint answers a refresh request with a non-success
\* status, getAccessToken() rejects with RefreshFailed, returns no token,
\* and the step changes neither the in-memory credentials nor the cache
\* file, so that credentials that called for a refresh still call for one.
C36_RefreshFailureChangesNothing ==
    [][ \A c \in DOMAIN ga :
          ( /\ ga[c].pc = "fetching"
            /\ ga'[c].pc = "done"
            /\ ga'[c].result.error # ErrTypeError )
          => /\ ga'[c].result = ErrorResult(ErrRefreshFailed)
             /\ ga'[c].granted = Null
             /\ credentials' = credentials
             /\ credFile' = credFile
             /\ AccessDecision(credentials, now) = "refresh"
                   => AccessDecision(credentials', now') = "refresh" ]_vars

\* a call was rejected with RefreshFailed, the cache file and the expired
\* credentials are still there, and the next call will refresh again
C36_Witness ==
    \E c \in DOMAIN ga :
        /\ ga[c].pc = "done"
        /\ ga[c].result = ErrorResult(ErrRefreshFailed)
        /\ ga[c].io = <<"POST token">>
        /\ credFile.exists
        /\ credentials # Null
        /\ credentials[1].access_token = ga[c].start.token
        /\ AccessDecision(credentials, now) = "refresh"

\* C37: a getAccessToken() call made with expires_at in the past and no
\* refresh_token is rejected, has started no I/O, and was granted no token.
C37_ExpiredWithoutRefreshFails ==
    \A c \in DOMAIN ga :
        (ga[c].pc = "done" /\ ga[c].start.expiry = "past" /\ ~ga[c].start.refresh)
        => /\ ga[c].result = ErrorResult(ErrExpiredNoRefresh)
           /\ ga[c].io = <<>>
           /\ ga[c].granted = Null

\* C34: for one client at most one refresh request is in flight at any
\* time.
C34_OneRefreshInFlight ==
    Cardinality({c \in DOMAIN ga : ga[c].pc = "fetching"}) <= 1

(***************************************************************************)
(* Properties of authWithDailicodeWeb (checked under SpecAuth)             *)
(***************************************************************************)
\* the handler invocations that have run to their end
FinishedHandlers == { h \in 1..Len(handlers) : handlers[h].pc = "finished" }

\* the handler invocation h posted a code to the token endpoint
Exchanged(h) == handlers[h].exit \in {"none", "exchangeFailed", "exception", "success"}

\* C11: once the handler has finished for a request whose state parameter
\* differs from the session's state, whatever its path and its other
\* parameters, the authorization promise is rejected with the CSRF error,
\* the handler has posted no code to the token endpoint, and the listener
\* is closed.
C11_StateMismatchIsCsrfViolation ==
    \A h \in FinishedHandlers :
        handlers[h].req.state # Some(SessionState)
        => /\ login = [status |-> "rejected", error |-> ErrCsrf]
           /\ ~Exchanged(h)
           /\ server = "closed"

\* C12: at most one request is ever handled in a session, and at most one
\* code is ever posted to the token endpoint.
C12_OneCallbackPerSession ==
    /\ Len(handlers) <= 1
    /\ Len(exchanges) <= 1

\* C13: once the handler has finished for a request, by whatever exit, the
\* listener is closed.
C13_ListenerClosedOnEveryExit ==
    FinishedHandlers # {} => server = "closed"

\* the handler left through its catch block after a failed token exchange
C13_Witness ==
    \E h \in FinishedHandlers :
        /\ handlers[h].exit = "exchangeFailed"
        /\ login = [status |-> "rejected", error |-> ErrExchangeFailed]
        /\ server = "closed"

\* C39: in the Google handler a request for which reject() was called (in
\* particular one whose URL lacks /oauth2callback) has not posted its code
\* to the token endpoint and has not set credentials on the client.
C39_RejectedRequestStops ==
    \A h \in 1..Len(handlers) :
        ( \/ handlers[h].req.path # CallbackPath
          \/ (handlers[h].pc = "finished" /\ handlers[h].exit # "success") )
        => /\ ~handlers[h].credentialsSet
           /\ handlers[h].pc \notin {"exchanging", "accountId"}

(***************************************************************************)
(* Properties of the DailicodeContentGenerator (checked under SpecGen)     *)
(***************************************************************************)
\* the body of an ok answer to generateContent, when the call is over
AnsweredOk ==
    /\ genPc = "done"
    /\ genOp = "generateContent"
    /\ fetched # <<>>
    /\ response.ok
    /\ response.data # Null

C15_BackendErrorCarriesStatusText ==
    (genPc = "done" /\ response # NoResponse /\ ~response.ok)
    => /\ genResult.status = "rejected"
       /\ genResult.error = <<"DailiCode API error: ", response.statusText>>
       /\ genResult.value = NoValue

\* a 401 answer to the streaming operation
C15_Witness ==
    /\ genPc = "done"
    /\ genOp = "generateContentStream"
    /\ response # NoResponse
    /\ ~response.ok
    /\ response.statusText = "Unauthorized"
    /\ genResult.status = "rejected"

\* C16: a request is sent to the content endpoint only once getAccessToken()
\* has resolved, and carries that token; when getAccessToken() rejected, no
\* request was sent and the operation rejected with the same error.
C16_TokenFirstAndFailurePropagates ==
    /\ fetched # <<>>
          => /\ accessToken.status = "resolved"
             /\ Len(fetched) = 1
             /\ fetched[1].bearer = accessToken.token
    /\ accessToken.status = "rejected"
          => /\ fetched = <<>>
             /\ genPc = "done"
             /\ genResult.status = "rejected"
             /\ genResult.error = accessToken.error
             /\ genResult.value = NoValue

\* the refresh was refused during an embedContent call
C16_Witness ==
    /\ genPc = "done"
    /\ genOp = "embedContent"
    /\ accessToken = ErrorResult(ErrRefreshFailed)
    /\ genResult.error = ErrRefreshFailed
    /\ fetched = <<>>

\* C20: an ok answer whose body is null, or an object with no choices and no
\* content, does not make generateContent resolve with a response that the
\* executor accepts.
C20_EmptyPayloadIsNotSuccess ==
    ( /\ genPc = "done"
      /\ genOp = "generateContent"
      /\ fetched # <<>>
      /\ response.ok
      /\ \/ response.data = Null
         \/ /\ response.data[1].choices = Null
            /\ response.data[1].content = Null
            /\ response.data[1].text = Null )
    => ~ExecutorAccepts(genResult)

\* C21: generateContent never resolves with an empty candidates sequence.
C21_CandidatesNeverEmpty ==
    (genPc = "done" /\ genOp = "generateContent" /\ genResult.status = "resolved")
    => Len(genResult.value.candidates) > 0


(***************************************************************************)
(* Properties of generateContentStream (checked under SpecStream)          *)
(***************************************************************************)
IsPrefix(s, t) == Len(s) <= Len(t) /\ SubSeq(t, 1, Len(s)) = s

\* the event lines of a text: its lines that ended with their newline
EventLines(text) == SplitLines(text, <<>>, <<>>).lines

\* the fragments of the well-formed events of a text, in the order of the
\* events, the other lines left out
ExpectedFragments(text) ==
    LET events == SelectSeq(EventLines(text), IsContentEvent)
    IN  [i \in 1..Len(events) |-> convertFromDailicodeFormat(EventData(events[i]))]

C29_ReaderReleasedOnce ==
    /\ ~reader.misused
    /\ reader.pending <=> streamPc = "reading"
    /\ streamPc \in {"completed", "returned", "threw"} => reader.released = 1
    /\ streamPc \in {"suspendedStart", "reading", "suspendedYield"} => reader.released = 0

\* the consumer ended the iteration while the body had more to deliver
C29_Witness ==
    /\ streamPc = "returned"
    /\ body.text # <<>>
    /\ yielded # <<>>
    /\ reader.released = 1


(***************************************************************************)
(* Properties of getDailicodeOauthClient (checked under SpecLogin)         *)
(***************************************************************************)
StepsDone == [i \in 1..Len(flowTrace) |-> flowTrace[i].step]

HasDone(name) == \E i \in 1..Len(flowTrace) : flowTrace[i].step = name

WebFlowStarted == HasDone("listen")

\* C30: when the cached credentials load and the user-info check succeeds
\* the client is returned and no listener is ever started; when they load
\* and the check fails, clearCachedCredentials has returned, with neither the
\* credential file nor the user-id file left on disk, before the listener is
\* started; when nothing loads the listener is the next step; the browser is
\* opened only after the listener was started; and the web flow returns the
\* client only when the login has completed.
C30_CacheThenWebFlow ==
    /\ HasDone("checkOk") =>
           /\ StepsDone = <<"loaded", "checkOk">>
           /\ flowPc = "returned"
           /\ server = "none"
    /\ (flowPc = "returned" /\ ~WebFlowStarted) => StepsDone = <<"loaded", "checkOk">>
    /\ server # "none" => WebFlowStarted
    /\ WebFlowStarted =>
           \/ IsPrefix(<<"notLoaded", "listen">>, StepsDone)
           \/ IsPrefix(<<"loaded", "checkFailed", "cleared", "listen">>, StepsDone)
    /\ \A i \in 1..Len(flowTrace) :
           /\ flowTrace[i].step = "cleared" => ~flowTrace[i].cached
           /\ flowTrace[i].step = "open" => (i > 1 /\ flowTrace[i - 1].step = "listen")
    /\ (flowPc = "returned" /\ WebFlowStarted) =>
           /\ login.status = "resolved"
           /\ HasDone("open")

=============================================================================
